---------------------------- MODULE Spec2Model ----------------------------
(* A model of rurl: the cookie matching engine (src/browser/mod.rs), the    *)
(* browser cookie extractors (src/browser/chrome*, firefox, safari) and the *)
(* redirect/retry loop of the HTTP client (src/http/mod.rs).                *)
(*                                                                          *)
(* Text is modelled as a sequence of one-character strings, so that         *)
(* prefixes, suffixes, trimming and case folding are computed, not assumed. *)
(* Option<T> is the record [some |-> FALSE] or [some |-> TRUE, v |-> x].    *)
EXTENDS Integers, Sequences, FiniteSets, TLC

VARIABLES
    op,      \* call machines: the function last called ("none" before a call)
    input,   \* call machines: its arguments
    output,  \* call machines: its return value
    config,              \* HttpClient.config
    pc,                  \* where execute_with_history stands
    retries_left,        \* execute_with_history
    attempts,            \* calls of execute_with_history_once made so far
    current_url,         \* execute_with_history_once
    current_method,      \* execute_with_history_once
    current_data,        \* execute_with_history_once
    redirects_followed,  \* execute_with_history_once
    cookie_context,      \* execute_with_history_once: the extracted store, if any
    extractions,         \* calls of extract_cookies in the current attempt
    requests_sent,       \* calls of client.execute in the current attempt
    request,             \* the request last handed to client.execute
    response,            \* the answer to it: a response or a transport error
    result               \* what the attempt, then the whole call, returns

matchVars == <<op, input, output>>
httpVars == <<config, pc, retries_left, attempts, current_url, current_method,
              current_data, redirects_followed, cookie_context, extractions,
              requests_sent, request, response, result>>
vars == <<op, input, output, config, pc, retries_left, attempts, current_url,
          current_method, current_data, redirects_followed, cookie_context,
          extractions, requests_sent, request, response, result>>

None == [some |-> FALSE]
Some(x) == [some |-> TRUE, v |-> x]

-----------------------------------------------------------------------------
(* Bounds of the model.                                                     *)

MaxHostLen == 3
MaxDomainLen == 3
MaxPathLen == 3
MaxCookies == 2
MaxRows == 2
MaxRecords == 2

-----------------------------------------------------------------------------
(* Results.                                                                 *)

Ok(x) == [ok |-> TRUE, val |-> x]
Err(kind) == [ok |-> FALSE, err |-> kind]

(* let x = e; F(x): e is computed once and F reads its value.               *)
Let(e, F(_)) == CHOOSE y \in {F(x) : x \in {e}} : TRUE

(* Rust's `let x = r?; F(x)`: an error of r is returned as it is, otherwise *)
(* the computation goes on with the value of r.                              *)
AndThen(r, F(_)) == CHOOSE y \in {IF x.ok THEN F(x.val) ELSE x : x \in {r}} : TRUE

-----------------------------------------------------------------------------
(* Characters. A char is written as a one-character string when it is one   *)
(* of LiteralCodePoints, and as "#" followed by its code point in decimal   *)
(* otherwise ("#96" is the grave accent, "#931" the capital sigma), so that *)
(* every char has exactly one notation. CodePointChar is char::from_u32 and *)
(* CodePointOf is `c as u32`.                                               *)

UpperLetters ==
    <<"A", "B", "C", "D", "E", "F", "G", "H", "I", "J", "K", "L", "M",
      "N", "O", "P", "Q", "R", "S", "T", "U", "V", "W", "X", "Y", "Z">>
LowerLetters ==
    <<"a", "b", "c", "d", "e", "f", "g", "h", "i", "j", "k", "l", "m",
      "n", "o", "p", "q", "r", "s", "t", "u", "v", "w", "x", "y", "z">>

(* The printable ASCII characters, U+0020 to U+007E, in code order; the     *)
(* place of the grave accent, U+0060, holds its code point notation.        *)
AsciiPrintable ==
    <<" ", "!", "\"", "#", "$", "%", "&", "'", "(", ")", "*", "+",
      ",", "-", ".", "/", "0", "1", "2", "3", "4", "5", "6", "7",
      "8", "9", ":", ";", "<", "=", ">", "?", "@", "A", "B", "C",
      "D", "E", "F", "G", "H", "I", "J", "K", "L", "M", "N", "O",
      "P", "Q", "R", "S", "T", "U", "V", "W", "X", "Y", "Z", "[",
      "\\", "]", "^", "_", "#96", "a", "b", "c", "d", "e", "f", "g",
      "h", "i", "j", "k", "l", "m", "n", "o", "p", "q", "r", "s",
      "t", "u", "v", "w", "x", "y", "z", "{", "|", "}", "~">>

(* The letters of the Latin-1 block, U+00C0 to U+00DE and U+00E0 to U+00FE  *)
(* without the two signs U+00D7 and U+00F7, in code order.                  *)
Latin1UpperLetters ==
    <<"À", "Á", "Â", "Ã", "Ä", "Å", "Æ", "Ç", "È", "É", "Ê", "Ë", "Ì",
      "Í", "Î", "Ï", "Ð", "Ñ", "Ò", "Ó", "Ô", "Õ", "Ö", "Ø", "Ù", "Ú",
      "Û", "Ü", "Ý", "Þ">>
Latin1LowerLetters ==
    <<"à", "á", "â", "ã", "ä", "å", "æ", "ç", "è", "é", "ê", "ë", "ì",
      "í", "î", "ï", "ð", "ñ", "ò", "ó", "ô", "õ", "ö", "ø", "ù", "ú",
      "û", "ü", "ý", "þ">>

CodePointChar(cp) ==
    IF cp >= 32 /\ cp <= 126 THEN AsciiPrintable[cp - 31]
    ELSE IF cp = 9 THEN "\t"
    ELSE IF cp = 10 THEN "\n"
    ELSE IF cp = 12 THEN "\f"
    ELSE IF cp = 13 THEN "\r"
    ELSE IF cp >= 192 /\ cp <= 222 /\ cp /= 215
    THEN Latin1UpperLetters[IF cp < 215 THEN cp - 191 ELSE cp - 192]
    ELSE IF cp >= 224 /\ cp <= 254 /\ cp /= 247
    THEN Latin1LowerLetters[IF cp < 247 THEN cp - 223 ELSE cp - 224]
    ELSE IF cp = 8364 THEN "€"
    ELSE "#" \o ToString(cp)

LiteralCodePoints ==
    ({9, 10, 12, 13, 8364} \cup (32..126) \cup (192..222) \cup (224..254))
    \ {96, 215, 247}

CharCode ==
    [c \in {CodePointChar(cp) : cp \in LiteralCodePoints} |->
        CHOOSE cp \in LiteralCodePoints : CodePointChar(cp) = c]

DecimalDigits == <<"0", "1", "2", "3", "4", "5", "6", "7", "8", "9">>

(* The number that a string of decimal digits writes.                       *)
RECURSIVE parse_decimal(_, _)
parse_decimal(digits, acc) ==
    IF digits = "" THEN acc
    ELSE parse_decimal(Tail(digits),
             10 * acc + (CHOOSE d \in 0..9 : DecimalDigits[d + 1] = Head(digits)))

CodePointOf(c) ==
    IF c \in DOMAIN CharCode THEN CharCode[c] ELSE parse_decimal(Tail(c), 0)

code_points(s) == [i \in 1..Len(s) |-> CodePointOf(s[i])]
text_of(cps) == [i \in 1..Len(cps) |-> CodePointChar(cps[i])]

(* The text of a string literal of the source.                              *)
Chars(literal) == [i \in 1..Len(literal) |-> SubSeq(literal, i, i)]

-----------------------------------------------------------------------------
(* Text helpers: what the std::str methods used by the source compute.      *)

StringsUpTo(alphabet, n) == UNION {[1..k -> alphabet] : k \in 0..n}

(* char::to_ascii_lowercase: only A-Z are folded.                           *)
AsciiLowerChar(c) ==
    IF \E i \in 1..26 : UpperLetters[i] = c
    THEN LowerLetters[CHOOSE i \in 1..26 : UpperLetters[i] = c]
    ELSE c

to_ascii_lowercase(s) == [i \in 1..Len(s) |-> AsciiLowerChar(s[i])]

InRanges(cp, ranges) ==
    \E i \in 1..Len(ranges) : cp >= ranges[i][1] /\ cp <= ranges[i][2]

(* core::unicode::conversions::to_lower, the simple lower-case mappings of  *)
(* the Unicode Character Database (version 17.0): rows <<first, last, step, *)
(* delta>> say that first, first + step, ..., last map to themselves plus   *)
(* delta. The capital sigma U+03A3 is listed with its non-final form; the   *)
(* one char with a longer mapping, U+0130, is in to_lower.                  *)
LowerRanges ==
    <<<<65, 90, 1, 32>>, <<192, 214, 1, 32>>, <<216, 222, 1, 32>>,
      <<256, 302, 2, 1>>, <<306, 310, 2, 1>>, <<313, 327, 2, 1>>,
      <<330, 374, 2, 1>>, <<376, 376, 1, -121>>, <<377, 381, 2, 1>>,
      <<385, 385, 1, 210>>, <<386, 388, 2, 1>>, <<390, 390, 1, 206>>,
      <<391, 391, 1, 1>>, <<393, 394, 1, 205>>, <<395, 395, 1, 1>>,
      <<398, 398, 1, 79>>, <<399, 399, 1, 202>>, <<400, 400, 1, 203>>,
      <<401, 401, 1, 1>>, <<403, 403, 1, 205>>, <<404, 404, 1, 207>>,
      <<406, 406, 1, 211>>, <<407, 407, 1, 209>>, <<408, 408, 1, 1>>,
      <<412, 412, 1, 211>>, <<413, 413, 1, 213>>, <<415, 415, 1, 214>>,
      <<416, 420, 2, 1>>, <<422, 422, 1, 218>>, <<423, 423, 1, 1>>,
      <<425, 425, 1, 218>>, <<428, 428, 1, 1>>, <<430, 430, 1, 218>>,
      <<431, 431, 1, 1>>, <<433, 434, 1, 217>>, <<435, 437, 2, 1>>,
      <<439, 439, 1, 219>>, <<440, 440, 1, 1>>, <<444, 444, 1, 1>>,
      <<452, 452, 1, 2>>, <<453, 453, 1, 1>>, <<455, 455, 1, 2>>,
      <<456, 456, 1, 1>>, <<458, 458, 1, 2>>, <<459, 475, 2, 1>>,
      <<478, 494, 2, 1>>, <<497, 497, 1, 2>>, <<498, 500, 2, 1>>,
      <<502, 502, 1, -97>>, <<503, 503, 1, -56>>, <<504, 542, 2, 1>>,
      <<544, 544, 1, -130>>, <<546, 562, 2, 1>>, <<570, 570, 1, 10795>>,
      <<571, 571, 1, 1>>, <<573, 573, 1, -163>>, <<574, 574, 1, 10792>>,
      <<577, 577, 1, 1>>, <<579, 579, 1, -195>>, <<580, 580, 1, 69>>,
      <<581, 581, 1, 71>>, <<582, 590, 2, 1>>, <<880, 882, 2, 1>>,
      <<886, 886, 1, 1>>, <<895, 895, 1, 116>>, <<902, 902, 1, 38>>,
      <<904, 906, 1, 37>>, <<908, 908, 1, 64>>, <<910, 911, 1, 63>>,
      <<913, 929, 1, 32>>, <<931, 939, 1, 32>>, <<975, 975, 1, 8>>,
      <<984, 1006, 2, 1>>, <<1012, 1012, 1, -60>>, <<1015, 1015, 1, 1>>,
      <<1017, 1017, 1, -7>>, <<1018, 1018, 1, 1>>, <<1021, 1023, 1, -130>>,
      <<1024, 1039, 1, 80>>, <<1040, 1071, 1, 32>>, <<1120, 1152, 2, 1>>,
      <<1162, 1214, 2, 1>>, <<1216, 1216, 1, 15>>, <<1217, 1229, 2, 1>>,
      <<1232, 1326, 2, 1>>, <<1329, 1366, 1, 48>>, <<4256, 4293, 1, 7264>>,
      <<4295, 4295, 1, 7264>>, <<4301, 4301, 1, 7264>>,
      <<5024, 5103, 1, 38864>>, <<5104, 5109, 1, 8>>, <<7305, 7305, 1, 1>>,
      <<7312, 7354, 1, -3008>>, <<7357, 7359, 1, -3008>>,
      <<7680, 7828, 2, 1>>, <<7838, 7838, 1, -7615>>, <<7840, 7934, 2, 1>>,
      <<7944, 7951, 1, -8>>, <<7960, 7965, 1, -8>>, <<7976, 7983, 1, -8>>,
      <<7992, 7999, 1, -8>>, <<8008, 8013, 1, -8>>, <<8025, 8031, 2, -8>>,
      <<8040, 8047, 1, -8>>, <<8072, 8079, 1, -8>>, <<8088, 8095, 1, -8>>,
      <<8104, 8111, 1, -8>>, <<8120, 8121, 1, -8>>, <<8122, 8123, 1, -74>>,
      <<8124, 8124, 1, -9>>, <<8136, 8139, 1, -86>>, <<8140, 8140, 1, -9>>,
      <<8152, 8153, 1, -8>>, <<8154, 8155, 1, -100>>, <<8168, 8169, 1, -8>>,
      <<8170, 8171, 1, -112>>, <<8172, 8172, 1, -7>>,
      <<8184, 8185, 1, -128>>, <<8186, 8187, 1, -126>>,
      <<8188, 8188, 1, -9>>, <<8486, 8486, 1, -7517>>,
      <<8490, 8490, 1, -8383>>, <<8491, 8491, 1, -8262>>,
      <<8498, 8498, 1, 28>>, <<8544, 8559, 1, 16>>, <<8579, 8579, 1, 1>>,
      <<9398, 9423, 1, 26>>, <<11264, 11311, 1, 48>>, <<11360, 11360, 1, 1>>,
      <<11362, 11362, 1, -10743>>, <<11363, 11363, 1, -3814>>,
      <<11364, 11364, 1, -10727>>, <<11367, 11371, 2, 1>>,
      <<11373, 11373, 1, -10780>>, <<11374, 11374, 1, -10749>>,
      <<11375, 11375, 1, -10783>>, <<11376, 11376, 1, -10782>>,
      <<11378, 11378, 1, 1>>, <<11381, 11381, 1, 1>>,
      <<11390, 11391, 1, -10815>>, <<11392, 11490, 2, 1>>,
      <<11499, 11501, 2, 1>>, <<11506, 11506, 1, 1>>, <<42560, 42604, 2, 1>>,
      <<42624, 42650, 2, 1>>, <<42786, 42798, 2, 1>>, <<42802, 42862, 2, 1>>,
      <<42873, 42875, 2, 1>>, <<42877, 42877, 1, -35332>>,
      <<42878, 42886, 2, 1>>, <<42891, 42891, 1, 1>>,
      <<42893, 42893, 1, -42280>>, <<42896, 42898, 2, 1>>,
      <<42902, 42920, 2, 1>>, <<42922, 42922, 1, -42308>>,
      <<42923, 42923, 1, -42319>>, <<42924, 42924, 1, -42315>>,
      <<42925, 42925, 1, -42305>>, <<42926, 42926, 1, -42308>>,
      <<42928, 42928, 1, -42258>>, <<42929, 42929, 1, -42282>>,
      <<42930, 42930, 1, -42261>>, <<42931, 42931, 1, 928>>,
      <<42932, 42946, 2, 1>>, <<42948, 42948, 1, -48>>,
      <<42949, 42949, 1, -42307>>, <<42950, 42950, 1, -35384>>,
      <<42951, 42953, 2, 1>>, <<42955, 42955, 1, -42343>>,
      <<42956, 42970, 2, 1>>, <<42972, 42972, 1, -42561>>,
      <<42997, 42997, 1, 1>>, <<65313, 65338, 1, 32>>,
      <<66560, 66599, 1, 40>>, <<66736, 66771, 1, 40>>,
      <<66928, 66964, 2, 39>>, <<66929, 66937, 2, 39>>,
      <<66941, 66953, 2, 39>>, <<66957, 66961, 2, 39>>,
      <<66965, 66965, 1, 39>>, <<68736, 68786, 1, 64>>,
      <<68944, 68965, 1, 32>>, <<71840, 71871, 1, 32>>,
      <<93760, 93791, 1, 32>>, <<93856, 93880, 1, 27>>,
      <<125184, 125217, 1, 34>>>>

(* The chars with the property Case_Ignorable, as ranges <<first, last>>.   *)
CaseIgnorableRanges ==
    <<<<39, 39>>, <<46, 46>>, <<58, 58>>, <<94, 94>>, <<96, 96>>,
      <<168, 168>>, <<173, 173>>, <<175, 175>>, <<180, 180>>, <<183, 184>>,
      <<688, 879>>, <<884, 885>>, <<890, 890>>, <<900, 901>>, <<903, 903>>,
      <<1155, 1161>>, <<1369, 1369>>, <<1375, 1375>>, <<1425, 1469>>,
      <<1471, 1471>>, <<1473, 1474>>, <<1476, 1477>>, <<1479, 1479>>,
      <<1524, 1524>>, <<1536, 1541>>, <<1552, 1562>>, <<1564, 1564>>,
      <<1600, 1600>>, <<1611, 1631>>, <<1648, 1648>>, <<1750, 1757>>,
      <<1759, 1768>>, <<1770, 1773>>, <<1807, 1807>>, <<1809, 1809>>,
      <<1840, 1866>>, <<1958, 1968>>, <<2027, 2037>>, <<2042, 2042>>,
      <<2045, 2045>>, <<2070, 2093>>, <<2137, 2139>>, <<2184, 2184>>,
      <<2192, 2193>>, <<2199, 2207>>, <<2249, 2306>>, <<2362, 2362>>,
      <<2364, 2364>>, <<2369, 2376>>, <<2381, 2381>>, <<2385, 2391>>,
      <<2402, 2403>>, <<2417, 2417>>, <<2433, 2433>>, <<2492, 2492>>,
      <<2497, 2500>>, <<2509, 2509>>, <<2530, 2531>>, <<2558, 2558>>,
      <<2561, 2562>>, <<2620, 2620>>, <<2625, 2626>>, <<2631, 2632>>,
      <<2635, 2637>>, <<2641, 2641>>, <<2672, 2673>>, <<2677, 2677>>,
      <<2689, 2690>>, <<2748, 2748>>, <<2753, 2757>>, <<2759, 2760>>,
      <<2765, 2765>>, <<2786, 2787>>, <<2810, 2815>>, <<2817, 2817>>,
      <<2876, 2876>>, <<2879, 2879>>, <<2881, 2884>>, <<2893, 2893>>,
      <<2901, 2902>>, <<2914, 2915>>, <<2946, 2946>>, <<3008, 3008>>,
      <<3021, 3021>>, <<3072, 3072>>, <<3076, 3076>>, <<3132, 3132>>,
      <<3134, 3136>>, <<3142, 3144>>, <<3146, 3149>>, <<3157, 3158>>,
      <<3170, 3171>>, <<3201, 3201>>, <<3260, 3260>>, <<3263, 3263>>,
      <<3270, 3270>>, <<3276, 3277>>, <<3298, 3299>>, <<3328, 3329>>,
      <<3387, 3388>>, <<3393, 3396>>, <<3405, 3405>>, <<3426, 3427>>,
      <<3457, 3457>>, <<3530, 3530>>, <<3538, 3540>>, <<3542, 3542>>,
      <<3633, 3633>>, <<3636, 3642>>, <<3654, 3662>>, <<3761, 3761>>,
      <<3764, 3772>>, <<3782, 3782>>, <<3784, 3790>>, <<3864, 3865>>,
      <<3893, 3893>>, <<3895, 3895>>, <<3897, 3897>>, <<3953, 3966>>,
      <<3968, 3972>>, <<3974, 3975>>, <<3981, 3991>>, <<3993, 4028>>,
      <<4038, 4038>>, <<4141, 4144>>, <<4146, 4151>>, <<4153, 4154>>,
      <<4157, 4158>>, <<4184, 4185>>, <<4190, 4192>>, <<4209, 4212>>,
      <<4226, 4226>>, <<4229, 4230>>, <<4237, 4237>>, <<4253, 4253>>,
      <<4348, 4348>>, <<4957, 4959>>, <<5906, 5908>>, <<5938, 5939>>,
      <<5970, 5971>>, <<6002, 6003>>, <<6068, 6069>>, <<6071, 6077>>,
      <<6086, 6086>>, <<6089, 6099>>, <<6103, 6103>>, <<6109, 6109>>,
      <<6155, 6159>>, <<6211, 6211>>, <<6277, 6278>>, <<6313, 6313>>,
      <<6432, 6434>>, <<6439, 6440>>, <<6450, 6450>>, <<6457, 6459>>,
      <<6679, 6680>>, <<6683, 6683>>, <<6742, 6742>>, <<6744, 6750>>,
      <<6752, 6752>>, <<6754, 6754>>, <<6757, 6764>>, <<6771, 6780>>,
      <<6783, 6783>>, <<6823, 6823>>, <<6832, 6877>>, <<6880, 6891>>,
      <<6912, 6915>>, <<6964, 6964>>, <<6966, 6970>>, <<6972, 6972>>,
      <<6978, 6978>>, <<7019, 7027>>, <<7040, 7041>>, <<7074, 7077>>,
      <<7080, 7081>>, <<7083, 7085>>, <<7142, 7142>>, <<7144, 7145>>,
      <<7149, 7149>>, <<7151, 7153>>, <<7212, 7219>>, <<7222, 7223>>,
      <<7288, 7293>>, <<7376, 7378>>, <<7380, 7392>>, <<7394, 7400>>,
      <<7405, 7405>>, <<7412, 7412>>, <<7416, 7417>>, <<7468, 7530>>,
      <<7544, 7544>>, <<7579, 7679>>, <<8125, 8125>>, <<8127, 8129>>,
      <<8141, 8143>>, <<8157, 8159>>, <<8173, 8175>>, <<8189, 8190>>,
      <<8203, 8207>>, <<8216, 8217>>, <<8228, 8228>>, <<8231, 8231>>,
      <<8234, 8238>>, <<8288, 8292>>, <<8294, 8303>>, <<8305, 8305>>,
      <<8319, 8319>>, <<8336, 8348>>, <<8400, 8432>>, <<11388, 11389>>,
      <<11503, 11505>>, <<11631, 11631>>, <<11647, 11647>>, <<11744, 11775>>,
      <<11823, 11823>>, <<12293, 12293>>, <<12330, 12333>>, <<12337, 12341>>,
      <<12347, 12347>>, <<12441, 12446>>, <<12540, 12542>>, <<40981, 40981>>,
      <<42232, 42237>>, <<42508, 42508>>, <<42607, 42610>>, <<42612, 42621>>,
      <<42623, 42623>>, <<42652, 42655>>, <<42736, 42737>>, <<42752, 42785>>,
      <<42864, 42864>>, <<42888, 42890>>, <<42993, 42996>>, <<43000, 43001>>,
      <<43010, 43010>>, <<43014, 43014>>, <<43019, 43019>>, <<43045, 43046>>,
      <<43052, 43052>>, <<43204, 43205>>, <<43232, 43249>>, <<43263, 43263>>,
      <<43302, 43309>>, <<43335, 43345>>, <<43392, 43394>>, <<43443, 43443>>,
      <<43446, 43449>>, <<43452, 43453>>, <<43471, 43471>>, <<43493, 43494>>,
      <<43561, 43566>>, <<43569, 43570>>, <<43573, 43574>>, <<43587, 43587>>,
      <<43596, 43596>>, <<43632, 43632>>, <<43644, 43644>>, <<43696, 43696>>,
      <<43698, 43700>>, <<43703, 43704>>, <<43710, 43711>>, <<43713, 43713>>,
      <<43741, 43741>>, <<43756, 43757>>, <<43763, 43764>>, <<43766, 43766>>,
      <<43867, 43871>>, <<43881, 43883>>, <<44005, 44005>>, <<44008, 44008>>,
      <<44013, 44013>>, <<64286, 64286>>, <<64434, 64450>>, <<65024, 65039>>,
      <<65043, 65043>>, <<65056, 65071>>, <<65106, 65106>>, <<65109, 65109>>,
      <<65279, 65279>>, <<65287, 65287>>, <<65294, 65294>>, <<65306, 65306>>,
      <<65342, 65342>>, <<65344, 65344>>, <<65392, 65392>>, <<65438, 65439>>,
      <<65507, 65507>>, <<65529, 65531>>, <<66045, 66045>>, <<66272, 66272>>,
      <<66422, 66426>>, <<67456, 67461>>, <<67463, 67504>>, <<67506, 67514>>,
      <<68097, 68099>>, <<68101, 68102>>, <<68108, 68111>>, <<68152, 68154>>,
      <<68159, 68159>>, <<68325, 68326>>, <<68900, 68903>>, <<68942, 68942>>,
      <<68969, 68973>>, <<68975, 68975>>, <<69291, 69292>>, <<69317, 69317>>,
      <<69370, 69375>>, <<69446, 69456>>, <<69506, 69509>>, <<69633, 69633>>,
      <<69688, 69702>>, <<69744, 69744>>, <<69747, 69748>>, <<69759, 69761>>,
      <<69811, 69814>>, <<69817, 69818>>, <<69821, 69821>>, <<69826, 69826>>,
      <<69837, 69837>>, <<69888, 69890>>, <<69927, 69931>>, <<69933, 69940>>,
      <<70003, 70003>>, <<70016, 70017>>, <<70070, 70078>>, <<70089, 70092>>,
      <<70095, 70095>>, <<70191, 70193>>, <<70196, 70196>>, <<70198, 70199>>,
      <<70206, 70206>>, <<70209, 70209>>, <<70367, 70367>>, <<70371, 70378>>,
      <<70400, 70401>>, <<70459, 70460>>, <<70464, 70464>>, <<70502, 70508>>,
      <<70512, 70516>>, <<70587, 70592>>, <<70606, 70606>>, <<70608, 70608>>,
      <<70610, 70610>>, <<70625, 70626>>, <<70712, 70719>>, <<70722, 70724>>,
      <<70726, 70726>>, <<70750, 70750>>, <<70835, 70840>>, <<70842, 70842>>,
      <<70847, 70848>>, <<70850, 70851>>, <<71090, 71093>>, <<71100, 71101>>,
      <<71103, 71104>>, <<71132, 71133>>, <<71219, 71226>>, <<71229, 71229>>,
      <<71231, 71232>>, <<71339, 71339>>, <<71341, 71341>>, <<71344, 71349>>,
      <<71351, 71351>>, <<71453, 71453>>, <<71455, 71455>>, <<71458, 71461>>,
      <<71463, 71467>>, <<71727, 71735>>, <<71737, 71738>>, <<71995, 71996>>,
      <<71998, 71998>>, <<72003, 72003>>, <<72148, 72151>>, <<72154, 72155>>,
      <<72160, 72160>>, <<72193, 72202>>, <<72243, 72248>>, <<72251, 72254>>,
      <<72263, 72263>>, <<72273, 72278>>, <<72281, 72283>>, <<72330, 72342>>,
      <<72344, 72345>>, <<72544, 72544>>, <<72546, 72548>>, <<72550, 72550>>,
      <<72752, 72758>>, <<72760, 72765>>, <<72767, 72767>>, <<72850, 72871>>,
      <<72874, 72880>>, <<72882, 72883>>, <<72885, 72886>>, <<73009, 73014>>,
      <<73018, 73018>>, <<73020, 73021>>, <<73023, 73029>>, <<73031, 73031>>,
      <<73104, 73105>>, <<73109, 73109>>, <<73111, 73111>>, <<73177, 73177>>,
      <<73459, 73460>>, <<73472, 73473>>, <<73526, 73530>>, <<73536, 73536>>,
      <<73538, 73538>>, <<73562, 73562>>, <<78896, 78912>>, <<78919, 78933>>,
      <<90398, 90409>>, <<90413, 90415>>, <<92912, 92916>>, <<92976, 92982>>,
      <<92992, 92995>>, <<93504, 93506>>, <<93547, 93548>>, <<94031, 94031>>,
      <<94095, 94111>>, <<94176, 94177>>, <<94179, 94180>>, <<94194, 94195>>,
      <<110576, 110579>>, <<110581, 110587>>, <<110589, 110590>>,
      <<113821, 113822>>, <<113824, 113827>>, <<118528, 118573>>,
      <<118576, 118598>>, <<119143, 119145>>, <<119155, 119170>>,
      <<119173, 119179>>, <<119210, 119213>>, <<119362, 119364>>,
      <<121344, 121398>>, <<121403, 121452>>, <<121461, 121461>>,
      <<121476, 121476>>, <<121499, 121503>>, <<121505, 121519>>,
      <<122880, 122886>>, <<122888, 122904>>, <<122907, 122913>>,
      <<122915, 122916>>, <<122918, 122922>>, <<122928, 122989>>,
      <<123023, 123023>>, <<123184, 123197>>, <<123566, 123566>>,
      <<123628, 123631>>, <<124139, 124143>>, <<124398, 124399>>,
      <<124643, 124643>>, <<124646, 124646>>, <<124654, 124655>>,
      <<124661, 124661>>, <<124671, 124671>>, <<125136, 125142>>,
      <<125252, 125259>>, <<127995, 127999>>, <<917505, 917505>>,
      <<917536, 917631>>, <<917760, 917999>>>>

(* The chars with the property Cased, as ranges <<first, last>>.            *)
CasedRanges ==
    <<<<65, 90>>, <<97, 122>>, <<170, 170>>, <<181, 181>>, <<186, 186>>,
      <<192, 214>>, <<216, 246>>, <<248, 442>>, <<444, 447>>, <<452, 659>>,
      <<662, 696>>, <<704, 705>>, <<736, 740>>, <<837, 837>>, <<880, 883>>,
      <<886, 887>>, <<890, 893>>, <<895, 895>>, <<902, 902>>, <<904, 906>>,
      <<908, 908>>, <<910, 929>>, <<931, 1013>>, <<1015, 1153>>,
      <<1162, 1327>>, <<1329, 1366>>, <<1376, 1416>>, <<4256, 4293>>,
      <<4295, 4295>>, <<4301, 4301>>, <<4304, 4346>>, <<4348, 4351>>,
      <<5024, 5109>>, <<5112, 5117>>, <<7296, 7306>>, <<7312, 7354>>,
      <<7357, 7359>>, <<7424, 7615>>, <<7680, 7957>>, <<7960, 7965>>,
      <<7968, 8005>>, <<8008, 8013>>, <<8016, 8023>>, <<8025, 8025>>,
      <<8027, 8027>>, <<8029, 8029>>, <<8031, 8061>>, <<8064, 8116>>,
      <<8118, 8124>>, <<8126, 8126>>, <<8130, 8132>>, <<8134, 8140>>,
      <<8144, 8147>>, <<8150, 8155>>, <<8160, 8172>>, <<8178, 8180>>,
      <<8182, 8188>>, <<8305, 8305>>, <<8319, 8319>>, <<8336, 8348>>,
      <<8450, 8450>>, <<8455, 8455>>, <<8458, 8467>>, <<8469, 8469>>,
      <<8473, 8477>>, <<8484, 8484>>, <<8486, 8486>>, <<8488, 8488>>,
      <<8490, 8493>>, <<8495, 8500>>, <<8505, 8505>>, <<8508, 8511>>,
      <<8517, 8521>>, <<8526, 8526>>, <<8544, 8575>>, <<8579, 8580>>,
      <<9398, 9449>>, <<11264, 11492>>, <<11499, 11502>>, <<11506, 11507>>,
      <<11520, 11557>>, <<11559, 11559>>, <<11565, 11565>>, <<42560, 42605>>,
      <<42624, 42653>>, <<42786, 42887>>, <<42891, 42894>>, <<42896, 42972>>,
      <<42993, 42998>>, <<43000, 43002>>, <<43824, 43866>>, <<43868, 43881>>,
      <<43888, 43967>>, <<64256, 64262>>, <<64275, 64279>>, <<65313, 65338>>,
      <<65345, 65370>>, <<66560, 66639>>, <<66736, 66771>>, <<66776, 66811>>,
      <<66928, 66938>>, <<66940, 66954>>, <<66956, 66962>>, <<66964, 66965>>,
      <<66967, 66977>>, <<66979, 66993>>, <<66995, 67001>>, <<67003, 67004>>,
      <<67456, 67456>>, <<67459, 67461>>, <<67463, 67504>>, <<67506, 67514>>,
      <<68736, 68786>>, <<68800, 68850>>, <<68944, 68965>>, <<68976, 68997>>,
      <<71840, 71903>>, <<93760, 93823>>, <<93856, 93880>>, <<93883, 93907>>,
      <<119808, 119892>>, <<119894, 119964>>, <<119966, 119967>>,
      <<119970, 119970>>, <<119973, 119974>>, <<119977, 119980>>,
      <<119982, 119993>>, <<119995, 119995>>, <<119997, 120003>>,
      <<120005, 120069>>, <<120071, 120074>>, <<120077, 120084>>,
      <<120086, 120092>>, <<120094, 120121>>, <<120123, 120126>>,
      <<120128, 120132>>, <<120134, 120134>>, <<120138, 120144>>,
      <<120146, 120485>>, <<120488, 120512>>, <<120514, 120538>>,
      <<120540, 120570>>, <<120572, 120596>>, <<120598, 120628>>,
      <<120630, 120654>>, <<120656, 120686>>, <<120688, 120712>>,
      <<120714, 120744>>, <<120746, 120770>>, <<120772, 120779>>,
      <<122624, 122633>>, <<122635, 122654>>, <<122661, 122666>>,
      <<122928, 122989>>, <<125184, 125251>>, <<127280, 127305>>,
      <<127312, 127337>>, <<127344, 127369>>>>

Case_Ignorable(cp) == InRanges(cp, CaseIgnorableRanges)
Cased(cp) == InRanges(cp, CasedRanges)

(* char::to_lowercase as the code points it yields.                         *)
to_lower(cp) ==
    IF cp < 128 THEN <<IF cp >= 65 /\ cp <= 90 THEN cp + 32 ELSE cp>>
    ELSE IF cp = 304 THEN <<105, 775>>
    ELSE LET rows == {i \in 1..Len(LowerRanges) :
                         /\ cp >= LowerRanges[i][1]
                         /\ cp <= LowerRanges[i][2]
                         /\ (cp - LowerRanges[i][1]) % LowerRanges[i][3] = 0} IN
         IF rows = {} THEN <<cp>>
         ELSE <<cp + LowerRanges[CHOOSE i \in rows : TRUE][4]>>

(* The first char that is not Case_Ignorable is there and is Cased.         *)
RECURSIVE case_ignorable_then_cased(_)
case_ignorable_then_cased(cps) ==
    IF cps = <<>> THEN FALSE
    ELSE IF Case_Ignorable(Head(cps)) THEN case_ignorable_then_cased(Tail(cps))
    ELSE Cased(Head(cps))

Reversed(s) == [i \in 1..Len(s) |-> s[Len(s) + 1 - i]]

(* A capital sigma becomes the final sigma U+03C2 when a cased letter       *)
(* stands before it and none after it, and U+03C3 otherwise.                *)
map_uppercase_sigma(cps, i) ==
    IF /\ case_ignorable_then_cased(Reversed(SubSeq(cps, 1, i - 1)))
       /\ ~case_ignorable_then_cased(SubSeq(cps, i + 1, Len(cps)))
    THEN 962 ELSE 963

RECURSIVE lowercase_from(_, _)
lowercase_from(cps, i) ==
    IF i > Len(cps) THEN <<>>
    ELSE (IF cps[i] = 931 THEN <<map_uppercase_sigma(cps, i)>> ELSE to_lower(cps[i]))
         \o lowercase_from(cps, i + 1)

(* str::to_lowercase.                                                       *)
to_lowercase(s) == text_of(lowercase_from(code_points(s), 1))

(* char::is_whitespace: the code points with the property White_Space.      *)
WhiteSpace ==
    (9..13) \cup {32, 133, 160, 5760} \cup (8192..8202)
    \cup {8232, 8233, 8239, 8287, 12288}

IsWhitespace(c) == CodePointOf(c) \in WhiteSpace

RECURSIVE trim_start(_)
trim_start(s) ==
    IF s /= <<>> /\ IsWhitespace(Head(s)) THEN trim_start(Tail(s)) ELSE s

RECURSIVE trim_end(_)
trim_end(s) ==
    IF s /= <<>> /\ IsWhitespace(s[Len(s)])
    THEN trim_end(SubSeq(s, 1, Len(s) - 1))
    ELSE s

trim(s) == trim_end(trim_start(s))

RECURSIVE trim_start_matches(_, _)
trim_start_matches(s, c) ==
    IF s /= <<>> /\ Head(s) = c THEN trim_start_matches(Tail(s), c) ELSE s

starts_with(s, p) == Len(p) <= Len(s) /\ SubSeq(s, 1, Len(p)) = p

ends_with(s, p) ==
    Len(p) <= Len(s) /\ SubSeq(s, Len(s) - Len(p) + 1, Len(s)) = p

(* The UTF-8 encoding of a char, and str::as_bytes.                         *)
encode_utf8(cp) ==
    IF cp < 128 THEN <<cp>>
    ELSE IF cp < 2048 THEN <<192 + (cp \div 64), 128 + (cp % 64)>>
    ELSE IF cp < 65536
    THEN <<224 + (cp \div 4096), 128 + ((cp \div 64) % 64), 128 + (cp % 64)>>
    ELSE <<240 + (cp \div 262144), 128 + ((cp \div 4096) % 64),
           128 + ((cp \div 64) % 64), 128 + (cp % 64)>>

RECURSIVE as_bytes(_)
as_bytes(s) ==
    IF s = <<>> THEN <<>>
    ELSE encode_utf8(CodePointOf(Head(s))) \o as_bytes(Tail(s))

-----------------------------------------------------------------------------
(* 64-bit integers. TLC's integers are 32 bits wide, and the source's i64   *)
(* values (Unix seconds, Chromium microseconds since 1601, the sentinel     *)
(* 100_000_000_000) are not, so an i64 is a sign and a magnitude written in *)
(* base 1_000_000, most significant limb first, without leading zero limbs. *)
(* Zero is [neg |-> FALSE, mag |-> <<>>].                                   *)

RECURSIVE MagNormalize(_)
MagNormalize(m) ==
    IF m /= <<>> /\ Head(m) = 0 THEN MagNormalize(Tail(m)) ELSE m

RECURSIVE MagLexLess(_, _)
MagLexLess(a, b) ==
    IF a = <<>> THEN FALSE
    ELSE IF Head(a) /= Head(b) THEN Head(a) < Head(b)
    ELSE MagLexLess(Tail(a), Tail(b))

MagLess(a, b) ==
    IF Len(a) /= Len(b) THEN Len(a) < Len(b) ELSE MagLexLess(a, b)

MagPad(m, n) == [i \in 1..(n - Len(m)) |-> 0] \o m

(* a + b on magnitudes of equal length n; the result has n + 1 limbs.       *)
RECURSIVE MagAddFrom(_, _, _, _)
MagAddFrom(a, b, i, carry) ==
    IF i = 0 THEN <<carry>>
    ELSE LET t == a[i] + b[i] + carry IN
         Append(MagAddFrom(a, b, i - 1, t \div 1000000), t % 1000000)

(* The operands are bound to their values first (x, y), so that each is     *)
(* computed once however often the body reads it.                            *)
MagAdd(a, b) ==
    CHOOSE sum \in
        {LET n == IF Len(x) > Len(y) THEN Len(x) ELSE Len(y) IN
         MagNormalize(MagAddFrom(MagPad(x, n), MagPad(y, n), n, 0)) :
            x \in {a}, y \in {b}} : TRUE

(* a - b on magnitudes of equal length n, for a >= b.                        *)
RECURSIVE MagSubFrom(_, _, _, _)
MagSubFrom(a, b, i, borrow) ==
    IF i = 0 THEN <<>>
    ELSE LET t == a[i] - b[i] - borrow IN
         Append(MagSubFrom(a, b, i - 1, IF t < 0 THEN 1 ELSE 0),
                IF t < 0 THEN t + 1000000 ELSE t)

MagSub(a, b) ==
    CHOOSE diff \in
        {MagNormalize(MagSubFrom(x, MagPad(y, Len(x)), Len(x), 0)) :
            x \in {a}, y \in {b}} : TRUE

(* floor(m / d) on a magnitude, for 0 < d < 2000 (so that no step leaves    *)
(* 32 bits).                                                                 *)
RECURSIVE MagDivFrom(_, _, _, _)
MagDivFrom(m, d, i, rem) ==
    IF i > Len(m) THEN <<>>
    ELSE LET t == rem * 1000000 + m[i] IN
         <<t \div d>> \o MagDivFrom(m, d, i + 1, t % d)

(* m * k on a magnitude, for 0 <= k <= 2000.                                 *)
RECURSIVE MagMulFrom(_, _, _, _)
MagMulFrom(m, k, i, carry) ==
    IF i = 0 THEN <<carry>>
    ELSE LET t == m[i] * k + carry IN
         Append(MagMulFrom(m, k, i - 1, t \div 1000000), t % 1000000)

MagMulSmall(m, k) ==
    CHOOSE product \in {MagNormalize(MagMulFrom(x, k, Len(x), 0)) : x \in {m}} : TRUE

BigOf(neg, mag) ==
    LET m == MagNormalize(mag) IN [neg |-> neg /\ m /= <<>>, mag |-> m]

(* The i64 of a number TLC can hold.                                         *)
I64(n) ==
    LET a == IF n < 0 THEN -n ELSE n IN
    BigOf(n < 0, <<a \div 1000000, a % 1000000>>)

BigNeg(a) == BigOf(~a.neg, a.mag)

BigLess(a, b) ==
    IF a.neg /= b.neg THEN a.neg
    ELSE IF a.neg THEN MagLess(b.mag, a.mag)
    ELSE MagLess(a.mag, b.mag)

BigLeq(a, b) == a = b \/ BigLess(a, b)

BigAdd(a, b) ==
    CHOOSE sum \in
        {IF x.neg = y.neg THEN BigOf(x.neg, MagAdd(x.mag, y.mag))
         ELSE IF MagLess(x.mag, y.mag) THEN BigOf(y.neg, MagSub(y.mag, x.mag))
         ELSE BigOf(x.neg, MagSub(x.mag, y.mag)) : x \in {a}, y \in {b}} : TRUE

BigSub(a, b) == BigAdd(a, BigNeg(b))

(* Rust's a / 1_000_000 on i64: the quotient truncated toward zero, which   *)
(* on a base-1_000_000 magnitude drops the last limb.                        *)
BigDivMillion(a) ==
    BigOf(a.neg, IF a.mag = <<>> THEN <<>> ELSE SubSeq(a.mag, 1, Len(a.mag) - 1))

(* Rust's a / d on i64 for a small d > 0, truncated toward zero.             *)
BigDivSmall(a, d) == BigOf(a.neg, MagDivFrom(a.mag, d, 1, 0))

BigZero == I64(0)

-----------------------------------------------------------------------------
(* Cookie matching engine, src/browser/mod.rs.                              *)

(* 100_000_000_000 *)
ExpirySentinel == BigOf(FALSE, <<100000, 0>>)

is_expired_strict(expires, now) ==
    IF ~expires.some THEN FALSE
    ELSE IF BigLess(ExpirySentinel, expires.v) THEN FALSE
    ELSE BigLess(expires.v, now)

is_expired(expires, now) ==
    IF ~expires.some THEN FALSE
    ELSE IF BigLess(ExpirySentinel, expires.v) THEN FALSE
    ELSE BigLeq(expires.v, now)

domain_matches(host, cookie_domain) ==
    LET cd == to_lowercase(trim(cookie_domain)) IN
    IF cd = <<>> THEN FALSE
    ELSE IF starts_with(cd, <<".">>)
         THEN LET domain == trim_start_matches(cd, ".") IN
              IF domain = <<>> THEN FALSE
              ELSE host = domain \/ ends_with(host, <<".">> \o domain)
         ELSE host = cd

path_matches_plain_prefix(request_path, cookie_path) ==
    LET cp == IF cookie_path = <<>> THEN <<"/">> ELSE cookie_path IN
    IF request_path = cp THEN TRUE ELSE starts_with(request_path, cp)

path_matches(request_path, cookie_path) ==
    LET cp == IF cookie_path = <<>> THEN <<"/">> ELSE cookie_path IN
    IF request_path = cp THEN TRUE
    ELSE IF ~starts_with(request_path, cp) THEN FALSE
    ELSE \/ ends_with(cp, <<"/">>)
         \/ starts_with(SubSeq(request_path, Len(cp) + 1, Len(request_path)),
                        <<"/">>)

(* The four rejections of cookies_for_url, in the order the loop applies   *)
(* them; host is the lower-cased URL host.                                  *)
cookie_passes_ignoring_secure(cookie, host, path, is_https, now) ==
    /\ ~is_expired(cookie.expires, now)
    /\ domain_matches(host, cookie.domain)
    /\ path_matches(path, cookie.path)

cookie_passes(cookie, host, path, is_https, now) ==
    /\ ~(cookie.secure /\ ~is_https)
    /\ ~is_expired(cookie.expires, now)
    /\ domain_matches(host, cookie.domain)
    /\ path_matches(path, cookie.path)

RECURSIVE filter_bucket(_, _, _, _, _)
filter_bucket(cookies, host, path, is_https, now) ==
    IF cookies = <<>> THEN <<>>
    ELSE (IF cookie_passes(Head(cookies), host, path, is_https, now)
          THEN <<Head(cookies)>> ELSE <<>>)
         \o filter_bucket(Tail(cookies), host, path, is_https, now)

(* store.values() of a HashMap visits the buckets in an unspecified order:  *)
(* order is a sequence holding every key of the store once.                 *)
RECURSIVE collect_matched(_, _, _, _, _, _)
collect_matched(store, order, host, path, is_https, now) ==
    IF order = <<>> THEN <<>>
    ELSE filter_bucket(store[Head(order)], host, path, is_https, now)
         \o collect_matched(store, Tail(order), host, path, is_https, now)

cookies_for_url(store, order, url, now) ==
    IF ~url.host.some THEN <<>>
    ELSE collect_matched(store, order, to_lowercase(url.host.v), url.path,
                         url.scheme = "https", now)

(* store.entry(cookie.domain.clone()).or_default().push(cookie): how every  *)
(* extractor puts a cookie into the store.                                  *)
insert_cookie(store, cookie) ==
    CHOOSE inserted \in
        {IF c.domain \in DOMAIN s
         THEN [s EXCEPT ![c.domain] = Append(@, c)]
         ELSE [k \in DOMAIN s \cup {c.domain} |->
                 IF k = c.domain THEN <<c>> ELSE s[k]] :
            s \in {store}, c \in {cookie}} : TRUE

EmptyStore == [k \in {} |-> <<>>]

RECURSIVE store_of(_)
store_of(cookies) ==
    IF cookies = <<>> THEN EmptyStore
    ELSE insert_cookie(store_of(SubSeq(cookies, 1, Len(cookies) - 1)),
                       cookies[Len(cookies)])

Orders(store) ==
    {o \in [1..Cardinality(DOMAIN store) -> DOMAIN store] :
        \A i, j \in DOMAIN o : i /= j => o[i] /= o[j]}

-----------------------------------------------------------------------------
(* Byte strings.                                                            *)

(* A continuation byte, 10xxxxxx.                                           *)
Utf8Continuation(b) == b >= 128 /\ b <= 191

(* The length of the well-formed UTF-8 sequence at the head of bytes, or 0  *)
(* when no well-formed sequence starts there: core::str::from_utf8 accepts  *)
(* neither an overlong form, nor a surrogate, nor a code point above        *)
(* U+10FFFF, nor a sequence cut short.                                      *)
utf8_char_width(bytes) ==
    LET b1 == bytes[1]
        n == Len(bytes) IN
    IF b1 < 128 THEN 1
    ELSE IF b1 >= 194 /\ b1 <= 223
    THEN IF n >= 2 /\ Utf8Continuation(bytes[2]) THEN 2 ELSE 0
    ELSE IF b1 >= 224 /\ b1 <= 239
    THEN IF /\ n >= 3
            /\ Utf8Continuation(bytes[2])
            /\ Utf8Continuation(bytes[3])
            /\ (b1 = 224 => bytes[2] >= 160)
            /\ (b1 = 237 => bytes[2] <= 159)
         THEN 3 ELSE 0
    ELSE IF b1 >= 240 /\ b1 <= 244
    THEN IF /\ n >= 4
            /\ Utf8Continuation(bytes[2])
            /\ Utf8Continuation(bytes[3])
            /\ Utf8Continuation(bytes[4])
            /\ (b1 = 240 => bytes[2] >= 144)
            /\ (b1 = 244 => bytes[2] <= 143)
         THEN 4 ELSE 0
    ELSE 0

(* The code point a well-formed sequence of the given width encodes.        *)
utf8_code_point(bytes, width) ==
    IF width = 1 THEN bytes[1]
    ELSE IF width = 2 THEN ((bytes[1] % 32) * 64) + (bytes[2] % 64)
    ELSE IF width = 3
    THEN ((bytes[1] % 16) * 4096) + ((bytes[2] % 64) * 64) + (bytes[3] % 64)
    ELSE ((bytes[1] % 8) * 262144) + ((bytes[2] % 64) * 4096)
         + ((bytes[3] % 64) * 64) + (bytes[4] % 64)

(* String::from_utf8 accepts the bytes: they are a run of well-formed       *)
(* sequences.                                                               *)
RECURSIVE Utf8Valid(_)
Utf8Valid(bytes) ==
    IF bytes = <<>> THEN TRUE
    ELSE LET width == utf8_char_width(bytes) IN
         IF width = 0 THEN FALSE
         ELSE Utf8Valid(SubSeq(bytes, width + 1, Len(bytes)))

(* The text that valid UTF-8 bytes encode, one character per sequence.      *)
RECURSIVE utf8_text(_)
utf8_text(bytes) ==
    IF bytes = <<>> THEN <<>>
    ELSE LET width == utf8_char_width(bytes) IN
         <<CodePointChar(utf8_code_point(bytes, width))>>
         \o utf8_text(SubSeq(bytes, width + 1, Len(bytes)))

from_utf8(bytes) == IF Utf8Valid(bytes) THEN Some(utf8_text(bytes)) ELSE None

TagV10 == <<118, 49, 48>>
TagV11 == <<118, 49, 49>>
TagV20 == <<118, 50, 48>>

(* The ciphers are black boxes: a codebook lists which ciphertext decrypts  *)
(* under which key to which plaintext; every other pair fails (a PKCS7      *)
(* padding error for AES-CBC, an authentication error for AES-GCM, an       *)
(* error of CryptUnprotectData for DPAPI).                                  *)
HashPrefixBytes == [i \in 1..32 |-> 255]
PlainAb == <<97, 98>>
PlainHashedAb == HashPrefixBytes \o <<97, 98>>
PlainHashOnly == HashPrefixBytes
PlainNotUtf8 == <<97, 255>>
(* "aé": the letter U+00E9 is the two bytes C3 A9.                          *)
PlainAccented == <<97, 195, 169>>
(* The first byte of a two-byte sequence, with the second one missing.      *)
PlainCutShort == <<97, 195>>
PlainAsciiHash == [i \in 1..32 |-> 104]

PeanutsPassword == <<112, 101, 97, 110, 117, 116, 115>>
EmptyPassword == <<>>
KeyringPassword == <<112, 119>>
KeychainPassword == <<109, 97, 99>>
(* A password longer than a block of HMAC-SHA1: 65 times the letter x.      *)
LongPassword == [i \in 1..65 |-> 120]

(* SHA-1 (FIPS 180-4), which HMAC applies to a key longer than its block. A *)
(* 32-bit word is the pair <<high, low>> of its 16-bit halves. The bitwise  *)
(* operations on numbers of n bits, n a power of two, split the numbers in  *)
(* halves, so that the recursion stays shallow.                             *)
RECURSIVE BitXor(_, _, _)
BitXor(a, b, n) ==
    IF n = 1 THEN (a + b) % 2
    ELSE (2^(n \div 2)) * BitXor(a \div 2^(n \div 2), b \div 2^(n \div 2), n \div 2)
         + BitXor(a % 2^(n \div 2), b % 2^(n \div 2), n \div 2)

RECURSIVE BitAnd(_, _, _)
BitAnd(a, b, n) ==
    IF n = 1 THEN a * b
    ELSE (2^(n \div 2)) * BitAnd(a \div 2^(n \div 2), b \div 2^(n \div 2), n \div 2)
         + BitAnd(a % 2^(n \div 2), b % 2^(n \div 2), n \div 2)

WordXor(x, y) == <<BitXor(x[1], y[1], 16), BitXor(x[2], y[2], 16)>>
WordAnd(x, y) == <<BitAnd(x[1], y[1], 16), BitAnd(x[2], y[2], 16)>>
WordOr(x, y) ==
    <<x[1] + y[1] - BitAnd(x[1], y[1], 16), x[2] + y[2] - BitAnd(x[2], y[2], 16)>>
WordNot(x) == <<65535 - x[1], 65535 - x[2]>>

(* The sum of the words modulo 2^32.                                        *)
RECURSIVE HalfSum(_, _)
HalfSum(words, half) ==
    IF words = <<>> THEN 0 ELSE Head(words)[half] + HalfSum(Tail(words), half)

WordSum(words) ==
    CHOOSE sum \in {<<(HalfSum(words, 1) + (low \div 65536)) % 65536, low % 65536>> :
                        low \in {HalfSum(words, 2)}} : TRUE

(* The rotation to the left by n bits, 0 < n < 32.                          *)
rotate_left(x, n) ==
    IF n >= 16 THEN
        IF n = 16 THEN <<x[2], x[1]>>
        ELSE <<((x[2] * 2^(n - 16)) % 65536) + (x[1] \div 2^(32 - n)),
               ((x[1] * 2^(n - 16)) % 65536) + (x[2] \div 2^(32 - n))>>
    ELSE <<((x[1] * 2^n) % 65536) + (x[2] \div 2^(16 - n)),
           ((x[2] * 2^n) % 65536) + (x[1] \div 2^(16 - n))>>

(* The message followed by the bit 1, zeros up to 56 bytes modulo 64, and   *)
(* the length in bits as 64 bits, most significant byte first.              *)
sha1_pad(message) ==
    LET n == Len(message)
        zeros == (119 - (n % 64)) % 64
        bits == n * 8 IN
    message \o <<128>> \o [i \in 1..zeros |-> 0] \o <<0, 0, 0, 0>>
    \o <<bits \div 16777216, (bits \div 65536) % 256, (bits \div 256) % 256,
         bits % 256>>

(* The message schedule w of a block, grown to n words: the 16 words of the *)
(* block come first, and each further word is made of four earlier ones.    *)
(* (The words are added half by half, so that the recursion stays shallow.) *)
RECURSIVE sha1_schedule(_, _)
sha1_schedule(w, n) ==
    IF n <= Len(w) THEN w
    ELSE IF n = Len(w) + 1
    THEN Append(w, rotate_left(
                       WordXor(WordXor(w[n - 3], w[n - 8]),
                               WordXor(w[n - 14], w[n - 16])), 1))
    ELSE CHOOSE grown \in {sha1_schedule(half, n) :
                    half \in {sha1_schedule(w, Len(w) + ((n - Len(w)) \div 2))}} : TRUE

sha1_block_words(block) ==
    [t \in 1..16 |-> <<block[4 * t - 3] * 256 + block[4 * t - 2],
                       block[4 * t - 1] * 256 + block[4 * t]>>]

(* The function and the constant of round t, 0 <= t < 80.                   *)
sha1_f(t, b, c, d) ==
    IF t < 20 THEN WordOr(WordAnd(b, c), WordAnd(WordNot(b), d))
    ELSE IF t < 40 THEN WordXor(WordXor(b, c), d)
    ELSE IF t < 60
    THEN WordOr(WordOr(WordAnd(b, c), WordAnd(b, d)), WordAnd(c, d))
    ELSE WordXor(WordXor(b, c), d)

sha1_k(t) ==
    IF t < 20 THEN <<23170, 31129>>
    ELSE IF t < 40 THEN <<28377, 60321>>
    ELSE IF t < 60 THEN <<36635, 48348>>
    ELSE <<51810, 49622>>

(* The working variables <<a, b, c, d, e>> after round t.                   *)
sha1_round(t, s, w) ==
    <<WordSum(<<rotate_left(s[1], 5), sha1_f(t, s[2], s[3], s[4]), s[5],
                sha1_k(t), w[t + 1]>>),
      s[1], rotate_left(s[2], 30), s[3], s[4]>>

(* The working variables after the rounds from t up to, but not with, u     *)
(* (done half by half, so that the recursion stays shallow).                *)
RECURSIVE sha1_rounds(_, _, _, _)
sha1_rounds(t, u, s, w) ==
    IF u <= t THEN s
    ELSE IF u = t + 1 THEN sha1_round(t, s, w)
    ELSE CHOOSE done \in {sha1_rounds(t + ((u - t) \div 2), u, half, w) :
                    half \in {sha1_rounds(t, t + ((u - t) \div 2), s, w)}} : TRUE

(* The hash value h after a block with the message schedule w: the working  *)
(* variables after the 80 rounds, added to the hash value before.           *)
sha1_compress(h, w) ==
    CHOOSE next \in {[i \in 1..5 |-> WordSum(<<h[i], s[i]>>)] :
                        s \in {sha1_rounds(0, 80, h, w)}} : TRUE

(* The hash value after the first block of the padded message.              *)
sha1_block(padded, h) ==
    CHOOSE next \in
        {sha1_compress(h, w) :
            w \in {sha1_schedule(sha1_block_words(SubSeq(padded, 1, 64)), 80)}} : TRUE

(* The hash value after the blocks of the padded message.                   *)
RECURSIVE sha1_blocks(_, _)
sha1_blocks(padded, h) ==
    IF padded = <<>> THEN h
    ELSE sha1_blocks(SubSeq(padded, 65, Len(padded)), sha1_block(padded, h))

SHA1_INITIAL ==
    <<<<26437, 8961>>, <<61389, 43913>>, <<39098, 56574>>, <<4146, 21622>>,
      <<50130, 57840>>>>

sha1(message) ==
    CHOOSE digest \in {[i \in 1..20 |->
                            IF i % 2 = 1
                            THEN h[(i + 3) \div 4][IF (i - 1) % 4 < 2 THEN 1 ELSE 2] \div 256
                            ELSE h[(i + 3) \div 4][IF (i - 1) % 4 < 2 THEN 1 ELSE 2] % 256] :
                          h \in {sha1_blocks(sha1_pad(message), SHA1_INITIAL)}} : TRUE

(* The block HMAC-SHA1 makes of its key: a key longer than the 64 bytes of  *)
(* a block is replaced by its hash, and the key is filled up with zero      *)
(* bytes.                                                                   *)
RECURSIVE hmac_key_block(_)
hmac_key_block(key) ==
    IF Len(key) > 64 THEN hmac_key_block(sha1(key))
    ELSE key \o [i \in 1..(64 - Len(key)) |-> 0]

(* derive_key: pbkdf2_hmac::<Sha1> of the password with the fixed salt and  *)
(* iteration count reads the password through the key block of HMAC only,   *)
(* so passwords with the same block give the same key; the key is named by  *)
(* that block, and passwords with different blocks give different keys.     *)
derive_key(password) == hmac_key_block(password)

(* The AES-CBC codebook names the key of an entry by a password it is       *)
(* derived from.                                                            *)
CbcCodebook ==
    {[ct |-> <<1>>, password |-> PeanutsPassword, plain |-> PlainAb],
     [ct |-> <<2>>, password |-> PeanutsPassword, plain |-> PlainHashedAb],
     [ct |-> <<3>>, password |-> EmptyPassword, plain |-> PlainAb],
     [ct |-> <<4>>, password |-> PeanutsPassword, plain |-> PlainNotUtf8],
     [ct |-> <<4>>, password |-> EmptyPassword, plain |-> PlainAb],
     [ct |-> <<5>>, password |-> KeyringPassword, plain |-> PlainAb],
     [ct |-> <<6>>, password |-> KeychainPassword, plain |-> PlainAb],
     [ct |-> <<7>>, password |-> KeychainPassword, plain |-> PlainHashedAb],
     [ct |-> <<8>>, password |-> PeanutsPassword, plain |-> PlainHashOnly],
     [ct |-> <<10>>, password |-> PeanutsPassword, plain |-> PlainAsciiHash],
     [ct |-> <<11>>, password |-> KeychainPassword, plain |-> PlainAsciiHash],
     [ct |-> <<12>>, password |-> KeyringPassword, plain |-> PlainAsciiHash],
     [ct |-> <<13>>, password |-> PeanutsPassword, plain |-> PlainNotUtf8],
     [ct |-> <<14>>, password |-> KeyringPassword, plain |-> PlainNotUtf8],
     [ct |-> <<14>>, password |-> EmptyPassword, plain |-> PlainAb],
     [ct |-> <<15>>, password |-> PeanutsPassword, plain |-> PlainAccented],
     [ct |-> <<15>>, password |-> KeychainPassword, plain |-> PlainAccented],
     [ct |-> <<16>>, password |-> PeanutsPassword, plain |-> PlainCutShort],
     [ct |-> <<16>>, password |-> KeychainPassword, plain |-> PlainCutShort],
     [ct |-> <<17>>, password |-> LongPassword, plain |-> PlainAb]}

decrypt_aes_cbc(ciphertext, key) ==
    LET hits == {e \in CbcCodebook :
                    e.ct = ciphertext /\ derive_key(e.password) = key} IN
    IF hits = {} THEN Err("BrowserCookie")
    ELSE Ok((CHOOSE e \in hits : TRUE).plain)

-----------------------------------------------------------------------------
(* Chromium rows. A row of the cookies table as the SELECT returns it:      *)
(* readable says that the typed reads of the text and integer columns       *)
(* succeed: it is FALSE for a row with a text column that is not TEXT or    *)
(* holds bytes that are not UTF-8, or with an integer column that is not    *)
(* INTEGER. encrypted_value carries its SQLite storage class.               *)

(* 11_644_473_600: seconds from 1601-01-01 to 1970-01-01.                   *)
ChromiumEpochOffset == BigOf(FALSE, <<11644, 473600>>)

chromium_expires_to_unix_seconds(expires_utc) ==
    IF expires_utc = BigZero THEN None
    ELSE LET unix_seconds == BigSub(BigDivMillion(expires_utc), ChromiumEpochOffset)
         IN IF BigLeq(unix_seconds, BigZero) THEN None ELSE Some(unix_seconds)

(* src/browser/chrome.rs, macOS: the stored expiry is the column itself.    *)
macos_row_expires(expires_utc) ==
    IF expires_utc = BigZero THEN None ELSE Some(expires_utc)

RowNone == [tag |-> "none"]
RowErr == [tag |-> "err"]
RowSome(cookie) == [tag |-> "some", cookie |-> cookie]

new_cookie(row, cookie_value, expires) ==
    [name |-> row.name, value |-> cookie_value, domain |-> row.host_key,
     path |-> row.path, secure |-> row.secure /= 0,
     http_only |-> row.http_only /= 0, expires |-> expires]

(* ---- Linux, src/browser/chrome/linux.rs ---- *)

(* trimmed: the plaintext without the 32 bytes of the hash before it.       *)
trim_hash_prefix(decrypted, hash_prefix) ==
    IF hash_prefix /\ Len(decrypted) > 32
    THEN SubSeq(decrypted, 33, Len(decrypted))
    ELSE decrypted

(* decrypt_aes_cbc_multi: the loop over the keys. One turn of the loop is   *)
(* with_decrypted, given what decrypt_aes_cbc returns for the key, and then *)
(* with_value, given the text of the trimmed plaintext.                     *)
RECURSIVE decrypt_aes_cbc_multi(_, _, _)
with_value(ciphertext, keys, hash_prefix, value) ==
    IF value.some THEN value
    ELSE decrypt_aes_cbc_multi(ciphertext, Tail(keys), hash_prefix)

with_decrypted(ciphertext, keys, hash_prefix, decrypted) ==
    IF ~decrypted.ok THEN None
    ELSE with_value(ciphertext, keys, hash_prefix,
                    from_utf8(trim_hash_prefix(decrypted.val, hash_prefix)))

decrypt_aes_cbc_multi(ciphertext, keys, hash_prefix) ==
    IF keys = <<>> THEN None
    ELSE with_decrypted(ciphertext, keys, hash_prefix,
                        decrypt_aes_cbc(ciphertext, Head(keys)))

(* LinuxChromeCookieDecryptor::new, given the keyring's answer.             *)
linux_decryptor(password, meta_version) ==
    [v10_key |-> derive_key(PeanutsPassword),
     empty_key |-> derive_key(EmptyPassword),
     v11_key |-> IF password.some THEN Some(derive_key(password.v)) ELSE None,
     meta_version |-> meta_version]

linux_decrypt(self, encrypted_value) ==
    IF Len(encrypted_value) < 3 THEN None
    ELSE LET version == SubSeq(encrypted_value, 1, 3)
             ciphertext == SubSeq(encrypted_value, 4, Len(encrypted_value))
         IN IF version = TagV10
            THEN decrypt_aes_cbc_multi(ciphertext, <<self.v10_key, self.empty_key>>,
                                       self.meta_version >= 24)
            ELSE IF version = TagV11
            THEN IF ~self.v11_key.some THEN None
                 ELSE decrypt_aes_cbc_multi(ciphertext,
                                            <<self.v11_key.v, self.empty_key>>,
                                            self.meta_version >= 24)
            ELSE None

(* read_encrypted_value of linux.rs and windows.rs: a blob or a text gives  *)
(* its bytes, NULL gives no bytes, any other storage class is an error.     *)
read_encrypted_value(row) ==
    IF row.enc_type \in {"blob", "text"} THEN Ok(row.encrypted_value)
    ELSE IF row.enc_type = "null" THEN Ok(<<>>)
    ELSE Err("BrowserCookie")

(* The cookie of a row with the value the decryptor returns for it, and no  *)
(* cookie when the decryptor returns none.                                  *)
decrypted_cookie(row, decrypted) ==
    IF ~decrypted.some THEN RowNone
    ELSE RowSome(new_cookie(row, decrypted.v,
                            chromium_expires_to_unix_seconds(row.expires_utc)))

(* A conversion that asks the decryptor before it looks at the plaintext    *)
(* column, which is not the order of row_to_cookie.                         *)
linux_row_to_cookie_decrypt_first(row, decryptor) ==
    IF ~row.readable \/ ~read_encrypted_value(row).ok THEN RowErr
    ELSE IF read_encrypted_value(row).val /= <<>>
    THEN decrypted_cookie(row, linux_decrypt(decryptor, read_encrypted_value(row).val))
    ELSE IF row.value /= <<>>
    THEN RowSome(new_cookie(row, row.value,
                            chromium_expires_to_unix_seconds(row.expires_utc)))
    ELSE RowNone

linux_row_to_cookie(row, decryptor) ==
    IF ~row.readable \/ ~read_encrypted_value(row).ok THEN RowErr
    ELSE IF row.value /= <<>>
    THEN RowSome(new_cookie(row, row.value,
                            chromium_expires_to_unix_seconds(row.expires_utc)))
    ELSE IF read_encrypted_value(row).val /= <<>>
    THEN decrypted_cookie(row, linux_decrypt(decryptor, read_encrypted_value(row).val))
    ELSE RowNone

(* parse_linux_keyring: the override, lower-cased, names a keyring or is a  *)
(* Config error.                                                            *)
parse_linux_keyring(value) ==
    Let(to_lowercase(value), LAMBDA v :
        IF v = <<"k", "w", "a", "l", "l", "e", "t">> THEN Ok("KWallet")
        ELSE IF v = <<"k", "w", "a", "l", "l", "e", "t", "5">> THEN Ok("KWallet5")
        ELSE IF v = <<"k", "w", "a", "l", "l", "e", "t", "6">> THEN Ok("KWallet6")
        ELSE IF v \in {<<"g", "n", "o", "m", "e">>,
                       <<"g", "n", "o", "m", "e", "k", "e", "y", "r", "i", "n", "g">>}
        THEN Ok("GnomeKeyring")
        ELSE IF v \in {<<"b", "a", "s", "i", "c">>,
                       <<"b", "a", "s", "i", "c", "t", "e", "x", "t">>}
        THEN Ok("BasicText")
        ELSE Err("Config"))

(* get_kwallet_password for the outcome of the kwallet-query helper: when   *)
(* the helper cannot be started, exits with a failure status or prints the  *)
(* "failed to read" sentinel, the password is the empty byte string.        *)
KWalletFailures == {"spawn_failed", "exit_status", "failed_to_read"}

get_kwallet_password(lookup) ==
    IF lookup \in KWalletFailures THEN <<>> ELSE KeyringPassword

(* get_gnome_keyring_password: every failure of the Secret Service gives    *)
(* the empty byte string.                                                   *)
get_gnome_keyring_password(lookup) ==
    IF lookup = "failed" THEN Ok(<<>>) ELSE Ok(KeyringPassword)

(* get_linux_keyring_password: the keyring is the override when there is    *)
(* one, otherwise the one choose_linux_keyring picks for the desktop;       *)
(* Basic-Text holds no password.                                            *)
get_linux_keyring_password(keyring) ==
    AndThen(IF keyring.override.some THEN parse_linux_keyring(keyring.override.v)
            ELSE Ok(keyring.chosen), LAMBDA backend :
        IF backend \in {"KWallet", "KWallet5", "KWallet6"}
        THEN Ok(Some(get_kwallet_password(keyring.lookup)))
        ELSE IF backend = "GnomeKeyring"
        THEN AndThen(get_gnome_keyring_password(keyring.lookup), LAMBDA password :
                 Ok(Some(password)))
        ELSE Ok(None))

linux_decryptor_for(password, meta_version) ==
    IF ~password.ok THEN password
    ELSE Ok(linux_decryptor(password.val, meta_version))

LinuxChromeCookieDecryptor_new(keyring, meta_version) ==
    linux_decryptor_for(get_linux_keyring_password(keyring), meta_version)

(* ---- macOS, src/browser/chrome.rs ---- *)

MacChromeCookieDecryptor_new(keychain, meta_version) ==
    Ok([key |-> IF keychain.some THEN Some(derive_key(keychain.v)) ELSE None,
        meta_version |-> meta_version])

(* The text of what decrypt_aes_cbc returns: none when it fails, otherwise  *)
(* the plaintext without the 32 bytes of the hash a database of version 24  *)
(* or later puts before it.                                                 *)
macos_plaintext(decrypted, meta_version) ==
    IF ~decrypted.ok THEN None
    ELSE from_utf8(trim_hash_prefix(decrypted.val, meta_version >= 24))

macos_decrypt(self, encrypted_value) ==
    IF Len(encrypted_value) < 3 THEN None
    ELSE LET version == SubSeq(encrypted_value, 1, 3)
             ciphertext == SubSeq(encrypted_value, 4, Len(encrypted_value))
         IN IF version = TagV10
            THEN IF ~self.key.some THEN None
                 ELSE macos_plaintext(decrypt_aes_cbc(ciphertext, self.key.v),
                                      self.meta_version)
            ELSE from_utf8(encrypted_value)

macos_decrypted_cookie(row, decrypted) ==
    IF ~decrypted.some THEN RowNone
    ELSE RowSome(new_cookie(row, decrypted.v, macos_row_expires(row.expires_utc)))

(* row.get::<_, Vec<u8>>(3) reads a blob and nothing else.                  *)
macos_row_to_cookie(row, decryptor) ==
    IF ~row.readable \/ row.enc_type /= "blob" THEN RowErr
    ELSE IF row.value /= <<>>
    THEN RowSome(new_cookie(row, row.value, macos_row_expires(row.expires_utc)))
    ELSE IF row.encrypted_value /= <<>>
    THEN macos_decrypted_cookie(row, macos_decrypt(decryptor, row.encrypted_value))
    ELSE RowNone

(* ---- Windows, src/browser/chrome/windows.rs ---- *)

AES_GCM_NONCE_LEN == 12
AES_GCM_TAG_LEN == 16

WinKey == [i \in 1..32 |-> 7]
ShortKey == <<7>>
GcmCt(n) == [i \in 1..28 |-> n]

GcmCodebook ==
    {[ct |-> GcmCt(1), key |-> WinKey, plain |-> PlainAb],
     [ct |-> GcmCt(2), key |-> WinKey, plain |-> PlainHashedAb],
     [ct |-> GcmCt(3), key |-> WinKey, plain |-> PlainNotUtf8],
     [ct |-> GcmCt(4), key |-> WinKey, plain |-> PlainAsciiHash],
     [ct |-> GcmCt(5), key |-> WinKey, plain |-> PlainAccented]}

DpapiCodebook ==
    {[blob |-> <<1, 0, 0, 0>>, plain |-> PlainAb],
     [blob |-> <<1, 0, 0, 1>>, plain |-> PlainHashedAb],
     [blob |-> <<1, 0, 0, 2>>, plain |-> PlainAsciiHash]}

decrypt_aes_gcm(ciphertext, key) ==
    IF Len(key) /= 32 THEN Err("BrowserCookie")
    ELSE IF Len(ciphertext) < AES_GCM_NONCE_LEN + AES_GCM_TAG_LEN
    THEN Err("BrowserCookie")
    ELSE LET hits == {e \in GcmCodebook : e.ct = ciphertext /\ e.key = key} IN
         IF hits = {} THEN Err("BrowserCookie")
         ELSE Ok((CHOOSE e \in hits : TRUE).plain)

decrypt_windows_dpapi(ciphertext) ==
    LET hits == {e \in DpapiCodebook : e.blob = ciphertext} IN
    IF hits = {} THEN Err("BrowserCookie")
    ELSE Ok((CHOOSE e \in hits : TRUE).plain)

decode_cookie_value(value, meta_version) ==
    from_utf8(IF meta_version >= 24 /\ Len(value) > 32
              THEN SubSeq(value, 33, Len(value)) ELSE value)

(* crate::browser::map_cookie_io_error turns an I/O error into an error of  *)
(* the crate; the kind it gives is the one the environment supplies.        *)
MapCookieIoErrorKinds == {"BrowserCookie", "PermissionDenied", "FileNotFound"}

map_cookie_io_error(io_kind) == Err(io_kind)

(* read_windows_v10_key, by the state of the Local State file.              *)
read_windows_v10_key(local_state, io_kind) ==
    IF local_state = "absent" THEN Ok(None)
    ELSE IF local_state = "unreadable" THEN map_cookie_io_error(io_kind)
    ELSE IF local_state \in {"bad_json", "no_key", "bad_base64", "bad_prefix"}
    THEN Ok(None)
    ELSE IF local_state = "dpapi_failed" THEN Ok(None)
    ELSE IF local_state = "short_key" THEN Ok(Some(ShortKey))
    ELSE Ok(Some(WinKey))

windows_decryptor(v10_key, meta_version) ==
    IF ~v10_key.ok THEN v10_key
    ELSE Ok([v10_key |-> v10_key.val, meta_version |-> meta_version])

WindowsChromeCookieDecryptor_new(local_state, io_kind, meta_version) ==
    windows_decryptor(read_windows_v10_key(local_state, io_kind), meta_version)

(* The cookie value of what a decryption returns: none when it fails.       *)
decode_plaintext(plaintext, meta_version) ==
    IF ~plaintext.ok THEN None
    ELSE decode_cookie_value(plaintext.val, meta_version)

windows_decrypt(self, encrypted_value) ==
    IF Len(encrypted_value) < 3 THEN None
    ELSE LET version == SubSeq(encrypted_value, 1, 3)
             ciphertext == SubSeq(encrypted_value, 4, Len(encrypted_value))
         IN IF version = TagV10
            THEN IF ~self.v10_key.some THEN None
                 ELSE decode_plaintext(decrypt_aes_gcm(ciphertext, self.v10_key.v),
                                       self.meta_version)
            ELSE decode_plaintext(decrypt_windows_dpapi(encrypted_value),
                                  self.meta_version)

windows_row_to_cookie(row, decryptor) ==
    IF ~row.readable \/ ~read_encrypted_value(row).ok THEN RowErr
    ELSE IF row.value /= <<>>
    THEN RowSome(new_cookie(row, row.value,
                            chromium_expires_to_unix_seconds(row.expires_utc)))
    ELSE IF read_encrypted_value(row).val /= <<>>
    THEN decrypted_cookie(row, windows_decrypt(decryptor, read_encrypted_value(row).val))
    ELSE RowNone

(* ---- extract_chromium_cookies, the same on the three systems ---- *)

(* An environment env tells which step before the row loop fails, if any    *)
(* (fail), the meta version of the database and the state of the secret     *)
(* store of the system.                                                     *)
ChromiumDecryptor_new(env) ==
    IF env.os = "linux" THEN LinuxChromeCookieDecryptor_new(env.secret, env.meta_version)
    ELSE IF env.os = "macos" THEN MacChromeCookieDecryptor_new(env.secret, env.meta_version)
    ELSE WindowsChromeCookieDecryptor_new(env.secret.local_state, env.io_kind,
                                          env.meta_version)

(* decrypt of the decryptor of the system.                                  *)
decrypt(os, self, encrypted_value) ==
    IF os = "linux" THEN linux_decrypt(self, encrypted_value)
    ELSE IF os = "macos" THEN macos_decrypt(self, encrypted_value)
    ELSE windows_decrypt(self, encrypted_value)

row_to_cookie(os, row, decryptor) ==
    IF os = "linux" THEN linux_row_to_cookie(row, decryptor)
    ELSE IF os = "macos" THEN macos_row_to_cookie(row, decryptor)
    ELSE windows_row_to_cookie(row, decryptor)

(* chromium_settings: the user-data directory is found from the config or   *)
(* the home directory on Linux, from the home directory on macOS and from   *)
(* LOCALAPPDATA and APPDATA, or the home directory in their place, on       *)
(* Windows. dirs tells which of them the environment gives.                 *)
chromium_settings(os, dirs) ==
    IF os = "linux"
    THEN (IF dirs.config_dir \/ dirs.home_dir THEN Ok("settings") ELSE Err("Config"))
    ELSE IF os = "macos"
    THEN (IF dirs.home_dir THEN Ok("settings") ELSE Err("Config"))
    ELSE IF ~(dirs.local_appdata \/ dirs.home_dir) THEN Err("Config")
    ELSE IF ~(dirs.appdata \/ dirs.home_dir) THEN Err("Config")
    ELSE Ok("settings")

(* The steps up to the query: settings, locator, temporary copy, open,      *)
(* schema, decryptor, prepare, query.                                       *)
(* The steps after the decryptor is built: prepare and query.               *)
chromium_query(env, decryptor) ==
    IF ~decryptor.ok THEN decryptor
    ELSE IF env.fail \in {"prepare", "query"} THEN Err("BrowserCookie")
    ELSE decryptor

chromium_open(env) ==
    IF ~chromium_settings(env.os, env.dirs).ok
    THEN chromium_settings(env.os, env.dirs)
    ELSE IF ~env.located.ok THEN env.located
    ELSE IF env.fail = "tempdir" THEN Err("BrowserCookie")
    ELSE IF env.fail = "copy"
    THEN (IF env.os = "windows" THEN map_cookie_io_error(env.io_kind)
          ELSE Err("BrowserCookie"))
    ELSE IF env.fail \in {"open", "schema"} THEN Err("BrowserCookie")
    ELSE chromium_query(env, ChromiumDecryptor_new(env))

(* The row loop: chromium_row is one turn of it, given what row_to_cookie   *)
(* returns for the first of the rows.                                       *)
RECURSIVE chromium_rows(_, _, _, _)
chromium_row(os, rows, decryptor, store, r) ==
    IF r.tag = "err" THEN Err("BrowserCookie")
    ELSE chromium_rows(os, Tail(rows), decryptor,
                       IF r.tag = "some" THEN insert_cookie(store, r.cookie)
                       ELSE store)

chromium_rows(os, rows, decryptor, store) ==
    IF rows = <<>> THEN Ok(store)
    ELSE chromium_row(os, rows, decryptor, store,
                      row_to_cookie(os, Head(rows), decryptor))

(* The rows read with what chromium_open returns.                           *)
chromium_read(os, rows, opened) ==
    IF ~opened.ok THEN opened
    ELSE chromium_rows(os, rows, opened.val, EmptyStore)

(* An extraction without cookies is an error.                               *)
chromium_non_empty(store) ==
    IF ~store.ok THEN store
    ELSE IF store.val = EmptyStore THEN Err("BrowserCookie")
    ELSE store

extract_chromium_cookies_empty_ok(env, rows) ==
    chromium_read(env.os, rows, chromium_open(env))

extract_chromium_cookies(env, rows) ==
    chromium_non_empty(chromium_read(env.os, rows, chromium_open(env)))

-----------------------------------------------------------------------------
(* Firefox, src/browser/firefox/macos.rs. The rows are those the SELECT     *)
(* returns for the container mode in force.                                 *)

firefox_row_to_cookie_seconds_always(row, schema_version) ==
    IF ~row.readable THEN RowErr
    ELSE RowSome([name |-> row.name, value |-> row.value, domain |-> row.host,
                  path |-> row.path, secure |-> row.secure /= 0,
                  http_only |-> row.http_only /= 0,
                  expires |-> IF row.expiry.some /\ BigLess(BigZero, row.expiry.v)
                              THEN row.expiry ELSE None])

firefox_row_to_cookie(row, schema_version) ==
    IF ~row.readable THEN RowErr
    ELSE LET expiry_seconds ==
                 IF ~row.expiry.some THEN None
                 ELSE IF schema_version >= 16
                      THEN Some(BigDivSmall(row.expiry.v, 1000))
                      ELSE Some(row.expiry.v)
             expires == IF expiry_seconds.some /\ BigLess(BigZero, expiry_seconds.v)
                        THEN expiry_seconds ELSE None
         IN RowSome([name |-> row.name, value |-> row.value, domain |-> row.host,
                     path |-> row.path, secure |-> row.secure /= 0,
                     http_only |-> row.http_only /= 0, expires |-> expires])

TextNone == <<"n", "o", "n", "e">>
TextUserContext == <<"u", "s", "e", "r", "C", "o", "n", "t", "e", "x", "t">>
TextDotLabel == <<".", "l", "a", "b", "e", "l">>

l10n_matches(container, l10n_id) ==
    IF ~l10n_id.some THEN FALSE
    ELSE IF ~starts_with(l10n_id.v, TextUserContext)
            \/ ~ends_with(l10n_id.v, TextDotLabel)
    THEN FALSE
    ELSE SubSeq(l10n_id.v, Len(TextUserContext) + 1,
                Len(l10n_id.v) - Len(TextDotLabel)) = container

(* The loop with a fallback to the unfiltered mode, which resolve_container *)
(* does not have.                                                           *)
RECURSIVE find_identity_falls_back(_, _)
find_identity_falls_back(identities, container) ==
    IF identities = <<>> THEN Ok([id |-> None, mode |-> "Any"])
    ELSE IF /\ \/ Head(identities).name = Some(container)
               \/ l10n_matches(container, Head(identities).l10nID)
            /\ Head(identities).userContextId.some
    THEN Ok([id |-> Some(Head(identities).userContextId.v), mode |-> "Specific"])
    ELSE find_identity_falls_back(Tail(identities), container)

(* The loop of resolve_container over the identities of containers.json.    *)
RECURSIVE find_identity(_, _)
find_identity(identities, container) ==
    IF identities = <<>> THEN Err("BrowserCookie")
    ELSE IF /\ \/ Head(identities).name = Some(container)
               \/ l10n_matches(container, Head(identities).l10nID)
            /\ Head(identities).userContextId.some
    THEN Ok([id |-> Some(Head(identities).userContextId.v), mode |-> "Specific"])
    ELSE find_identity(Tail(identities), container)

(* resolve_container, for the container of the configuration and the state  *)
(* of containers.json next to the database.                                 *)
resolve_container(container, containers_json, io_kind) ==
    IF ~container.some THEN Ok([id |-> None, mode |-> "Any"])
    ELSE IF container.v = TextNone THEN Ok([id |-> None, mode |-> "NoneOnly"])
    ELSE IF containers_json.state = "absent" THEN Err("FileNotFound")
    ELSE IF containers_json.state = "unreadable" THEN map_cookie_io_error(io_kind)
    ELSE IF containers_json.state = "bad_json" THEN Err("Json")
    ELSE find_identity(containers_json.identities, container.v)

firefox_open(env) ==
    IF ~env.located.ok THEN env.located
    ELSE IF env.fail = "tempdir" THEN Err("BrowserCookie")
    ELSE IF env.fail = "copy" THEN map_cookie_io_error(env.io_kind)
    ELSE IF env.fail \in {"open", "schema"} THEN Err("BrowserCookie")
    ELSE LET mode == resolve_container(env.secret.container,
                                       env.secret.containers_json, env.io_kind) IN
         IF ~mode.ok THEN mode
         ELSE IF env.fail \in {"prepare", "query"} THEN Err("BrowserCookie")
         ELSE mode

(* The WHERE clause of the SELECT, rendered as SQLite evaluates it: LIKE     *)
(* with % for any run of characters and _ for one character, letters of     *)
(* ASCII compared without case; INSTR with the 1-based position of the      *)
(* first occurrence, 0 when there is none, compared with case.              *)
(* LIKE reads its two operands as C strings: each ends at its first NUL.    *)
RECURSIVE until_nul(_)
until_nul(text) ==
    IF text = <<>> \/ Head(text) = CodePointChar(0) THEN <<>>
    ELSE <<Head(text)>> \o until_nul(Tail(text))

RECURSIVE pattern_compare(_, _)
pattern_compare(pattern, text) ==
    IF pattern = <<>> THEN text = <<>>
    ELSE IF Head(pattern) = "%"
    THEN \/ pattern_compare(Tail(pattern), text)
         \/ (text /= <<>> /\ pattern_compare(pattern, Tail(text)))
    ELSE IF Head(pattern) = "_"
    THEN text /= <<>> /\ pattern_compare(Tail(pattern), Tail(text))
    ELSE /\ text /= <<>>
         /\ AsciiLowerChar(Head(pattern)) = AsciiLowerChar(Head(text))
         /\ pattern_compare(Tail(pattern), Tail(text))

like(pattern, text) == pattern_compare(until_nul(pattern), until_nul(text))

RECURSIVE instr_from(_, _, _)
instr_from(text, needle, i) ==
    IF i + Len(needle) - 1 > Len(text) THEN 0
    ELSE IF SubSeq(text, i, i + Len(needle) - 1) = needle THEN i
    ELSE instr_from(text, needle, i + 1)

INSTR(text, needle) == instr_from(text, needle, 1)

(* format!("{}", id) for a container id.                                    *)
RECURSIVE id_to_string(_)
id_to_string(id) ==
    IF id < 0 THEN <<"-">> \o id_to_string(0 - id)
    ELSE IF id < 10 THEN <<DecimalDigits[id + 1]>>
    ELSE id_to_string(id \div 10) \o <<DecimalDigits[(id % 10) + 1]>>

TextUserContextIdEq ==
    <<"u", "s", "e", "r", "C", "o", "n", "t", "e", "x", "t", "I", "d", "=">>

(* Whether the query of the container mode returns the row.                 *)
firefox_where(resolved, row) ==
    IF resolved.mode = "Specific"
    THEN \/ like(<<"%">> \o TextUserContextIdEq \o id_to_string(resolved.id.v),
                 row.originAttributes)
         \/ like(<<"%">> \o TextUserContextIdEq \o id_to_string(resolved.id.v)
                      \o <<"&", "%">>,
                 row.originAttributes)
    ELSE IF resolved.mode = "NoneOnly"
    THEN INSTR(row.originAttributes, TextUserContextIdEq) = 0
    ELSE TRUE

firefox_select(resolved, rows) == SelectSeq(rows, LAMBDA row : firefox_where(resolved, row))

RECURSIVE firefox_rows(_, _, _)
firefox_rows(rows, schema_version, store) ==
    IF rows = <<>> THEN Ok(store)
    ELSE LET r == firefox_row_to_cookie(Head(rows), schema_version) IN
         IF r.tag = "err" THEN Err("BrowserCookie")
         ELSE firefox_rows(Tail(rows), schema_version, insert_cookie(store, r.cookie))

(* extract_cookies over the rows of moz_cookies: the query of the container  *)
(* mode selects the rows, the loop converts and stores them.                *)
firefox_extract_cookies(env, rows) ==
    IF env.os = "linux" THEN Err("Unsupported")
    ELSE LET opened == firefox_open(env) IN
         IF ~opened.ok THEN opened
         ELSE IF opened.val.mode = "Specific" /\ ~opened.val.id.some
         THEN Err("BrowserCookie")
         ELSE LET store == firefox_rows(firefox_select(opened.val, rows),
                                        env.meta_version, EmptyStore) IN
              IF ~store.ok THEN store
              ELSE IF store.val = EmptyStore THEN Err("BrowserCookie")
              ELSE store

-----------------------------------------------------------------------------
(* Safari, src/browser/safari.rs: the .binarycookies parser. A buffer is a  *)
(* sequence of bytes, a cursor counts the bytes already read.               *)

SAFARI_COOKIE_MAGIC == <<99, 111, 111, 107>>
SAFARI_PAGE_MAGIC == <<0, 0, 1, 0>>
(* 978307200 *)
MAC_EPOCH_OFFSET == BigOf(FALSE, <<978, 307200>>)

(* 2^63 - 1 and 2^63 as magnitudes.                                         *)
I64MaxMag == <<9, 223372, 36854, 775807>>
I64MinMag == <<9, 223372, 36854, 775808>>

(* The magnitude of a natural number TLC can hold.                           *)
MagOfNat(n) == MagNormalize(<<n \div 1000000, n % 1000000>>)

(* m * 2^n, ten bits at a time.                                              *)
RECURSIVE MagShl(_, _)
MagShl(m, n) ==
    IF n = 0 THEN m
    ELSE LET k == IF n > 10 THEN 10 ELSE n IN
         MagShl(MagMulSmall(m, 2^k), n - k)

(* f64::from_bits(u64::from_le_bytes(b)) as i64: the value truncated toward *)
(* zero, saturated at the ends of i64, and 0 for a NaN. With e the unbiased *)
(* exponent, the 53-bit significand is top31 * 2^22 + low22 and the value   *)
(* is significand * 2^(e - 52).                                              *)
f64_le_as_i64(b) ==
    LET sign == b[8] >= 128
        exp == (b[8] % 128) * 16 + (b[7] \div 16)
        e == exp - 1023
        hi20 == ((b[7] % 16) * 256 + b[6]) * 256 + b[5]
        mid16 == b[4] * 256 + b[3]
        low16 == b[2] * 256 + b[1]
        top31 == 2^30 + hi20 * 1024 + (mid16 \div 64)
        low22 == (mid16 % 64) * 65536 + low16
        saturated == IF sign THEN BigOf(TRUE, I64MinMag) ELSE BigOf(FALSE, I64MaxMag)
    IN IF exp = 2047
       THEN (IF hi20 = 0 /\ mid16 = 0 /\ low16 = 0 THEN saturated ELSE BigZero)
       ELSE IF e < 0 THEN BigZero
       ELSE IF e >= 63 THEN saturated
       ELSE IF e <= 30 THEN BigOf(sign, MagOfNat(top31 \div 2^(30 - e)))
       ELSE IF e <= 52
       THEN BigOf(sign, MagAdd(MagShl(MagOfNat(top31), e - 30),
                               MagOfNat(low22 \div 2^(52 - e))))
       ELSE BigOf(sign, MagAdd(MagShl(MagOfNat(top31), e - 30),
                               MagShl(MagOfNat(low22), e - 52)))

(* MAC_EPOCH_OFFSET + timestamp as i64. The sum leaves i64 only for a       *)
(* timestamp near i64::MAX: a build with overflow checks panics there, a    *)
(* build without them wraps around.                                          *)
mac_absolute_to_unix(timestamp_bytes, overflow_checks) ==
    Let(BigAdd(MAC_EPOCH_OFFSET, f64_le_as_i64(timestamp_bytes)), LAMBDA sum :
        IF ~sum.neg /\ MagLess(I64MaxMag, sum.mag)
        THEN (IF overflow_checks THEN Err("panic")
              ELSE Ok(BigSub(sum, BigOf(FALSE, MagMulSmall(I64MinMag, 2)))))
        ELSE Ok(sum))

(* DataParser::read_bytes *)
read_bytes(data, cursor, len) ==
    IF cursor + len > Len(data) THEN Err("BrowserCookie")
    ELSE Ok([v |-> SubSeq(data, cursor + 1, cursor + len), cursor |-> cursor + len])

(* u32::from_be_bytes([b3, b2, b1, b0]) as usize. The value can be 2^31 or  *)
(* more, so it is held the way an i64 is: a magnitude in base 1_000_000.    *)
(* 2^24 = 16 * 1_000_000 + 777_216, so the low limb is taken from           *)
(* b3 * 777_216 + b2 * 2^16 + b1 * 2^8 + b0, which stays below 2^31.         *)
u32_of(b3, b2, b1, b0) ==
    LET low == b3 * 777216 + b2 * 65536 + b1 * 256 + b0 IN
    BigOf(FALSE, <<b3 * 16 + low \div 1000000, low % 1000000>>)

(* A usize that is known to be less than 2^31 (it was compared with the     *)
(* length of a buffer) as a position in that buffer.                        *)
usize_small(v) ==
    IF v.mag = <<>> THEN 0
    ELSE IF Len(v.mag) = 1 THEN v.mag[1]
    ELSE v.mag[1] * 1000000 + v.mag[2]

read_u32_be(data, cursor) ==
    AndThen(read_bytes(data, cursor, 4), LAMBDA r :
        Ok([v |-> u32_of(r.v[1], r.v[2], r.v[3], r.v[4]), cursor |-> r.cursor]))

read_u32_le(data, cursor) ==
    AndThen(read_bytes(data, cursor, 4), LAMBDA r :
        Ok([v |-> u32_of(r.v[4], r.v[3], r.v[2], r.v[1]), cursor |-> r.cursor]))

expect_bytes(data, cursor, expected) ==
    AndThen(read_bytes(data, cursor, Len(expected)), LAMBDA r :
        IF r.v /= expected THEN Err("BrowserCookie") ELSE Ok(r))

(* Vec::with_capacity(count) for a vector of usize: count * 8 bytes are     *)
(* asked of the allocator before the first element is read, and a request   *)
(* the allocator refuses ends the process (handle_alloc_error aborts).      *)
(* Whether a large request is refused depends on the memory of the machine  *)
(* and on whether its kernel overcommits: alloc_limit is the number of bytes *)
(* above which a request is refused, None when every request is granted.    *)
vec_with_capacity(count, alloc_limit) ==
    IF /\ alloc_limit.some
       /\ BigLess(alloc_limit.v, BigOf(FALSE, MagMulSmall(count.mag, 8)))
    THEN Err("abort")
    ELSE Ok(<<>>)

(* for _ in 0..count { list.push(read_u32()? as usize) }: the loop ends    *)
(* when the list holds count elements.                                      *)
RECURSIVE read_u32_list(_, _, _, _, _)
read_u32_list(data, cursor, count, big_endian, list) ==
    IF I64(Len(list)) = count THEN Ok([v |-> list, cursor |-> cursor])
    ELSE AndThen(IF big_endian THEN read_u32_be(data, cursor)
                 ELSE read_u32_le(data, cursor), LAMBDA r :
             read_u32_list(data, r.cursor, count, big_endian,
                           Append(list, r.v)))

RECURSIVE position_of_zero(_, _)
position_of_zero(slice, i) ==
    IF i > Len(slice) THEN None
    ELSE IF slice[i] = 0 THEN Some(i - 1)
    ELSE position_of_zero(slice, i + 1)

read_cstring_at(data, offset) ==
    IF BigLeq(I64(Len(data)), offset) THEN Err("BrowserCookie")
    ELSE Let(SubSeq(data, usize_small(offset) + 1, Len(data)), LAMBDA slice :
         Let(position_of_zero(slice, 1), LAMBDA end :
             IF ~end.some THEN Err("BrowserCookie")
             ELSE IF ~Utf8Valid(SubSeq(slice, 1, end.v)) THEN Err("BrowserCookie")
             ELSE Ok(utf8_text(SubSeq(slice, 1, end.v)))))

(* parse_safari_record: the 56 bytes of the fixed part are read in order,   *)
(* then the four strings. The result is an error, Ok(None) or Ok(Some(c)).  *)
parse_safari_record(data, overflow_checks) ==
    AndThen(read_bytes(data, 0, 56), LAMBDA fixed :
    Let(fixed.v, LAMBDA f :
    AndThen(read_cstring_at(data, u32_of(f[20], f[19], f[18], f[17])), LAMBDA domain :
    AndThen(read_cstring_at(data, u32_of(f[24], f[23], f[22], f[21])), LAMBDA name :
    AndThen(read_cstring_at(data, u32_of(f[28], f[27], f[26], f[25])), LAMBDA path :
    AndThen(read_cstring_at(data, u32_of(f[32], f[31], f[30], f[29])), LAMBDA value :
        IF domain = <<>> \/ name = <<>> THEN Ok(None)
        ELSE AndThen(mac_absolute_to_unix(SubSeq(f, 41, 48), overflow_checks),
                     LAMBDA expires :
                 Ok(Some([name |-> name, value |-> value, domain |-> domain,
                          path |-> path, secure |-> f[9] % 2 = 1,
                          http_only |-> FALSE, expires |-> Some(expires)])))))))))

RECURSIVE safari_records(_, _, _, _)
safari_records(data, record_offsets, overflow_checks, store) ==
    IF record_offsets = <<>> THEN Ok(store)
    ELSE IF BigLeq(I64(Len(data)), Head(record_offsets))
    THEN safari_records(data, Tail(record_offsets), overflow_checks, store)
    ELSE AndThen(parse_safari_record(
                     SubSeq(data, usize_small(Head(record_offsets)) + 1, Len(data)),
                     overflow_checks), LAMBDA cookie :
             safari_records(data, Tail(record_offsets), overflow_checks,
                            IF cookie.some THEN insert_cookie(store, cookie.v)
                            ELSE store))

(* build holds what the outcome depends on besides the bytes: whether the   *)
(* build checks integer overflow, and the allocator's limit. The header of  *)
(* the page is read first (signature, record count, the vector and its      *)
(* offsets); header.count is record_count and header.v is record_offsets.   *)
parse_safari_page(data, build, store) ==
    AndThen(
        AndThen(AndThen(expect_bytes(data, 0, SAFARI_PAGE_MAGIC), LAMBDA magic :
                            read_u32_le(data, magic.cursor)),
                LAMBDA record_count :
            AndThen(vec_with_capacity(record_count.v, build.alloc_limit),
                    LAMBDA vec :
            AndThen(read_u32_list(data, record_count.cursor, record_count.v,
                                  FALSE, vec), LAMBDA record_offsets :
                Ok([count |-> record_count.v, v |-> record_offsets.v])))),
        LAMBDA header :
            IF header.count = BigZero THEN Ok(store)
            ELSE safari_records(data, header.v, build.overflow_checks, store))

(* body_cursor never passes the end of the buffer; page_end can.            *)
RECURSIVE safari_pages(_, _, _, _, _)
safari_pages(data, body_cursor, page_sizes, build, store) ==
    IF page_sizes = <<>> THEN Ok(store)
    ELSE Let(BigAdd(I64(body_cursor), Head(page_sizes)), LAMBDA page_end :
         IF BigLess(I64(Len(data)), page_end) THEN Err("BrowserCookie")
         ELSE AndThen(parse_safari_page(
                          SubSeq(data, body_cursor + 1, usize_small(page_end)),
                          build, store), LAMBDA filled :
                  safari_pages(data, usize_small(page_end), Tail(page_sizes),
                               build, filled)))

(* header.v is page_sizes and header.cursor the cursor after the sizes.     *)
parse_safari_cookies(data, build) ==
    AndThen(
        AndThen(AndThen(expect_bytes(data, 0, SAFARI_COOKIE_MAGIC), LAMBDA magic :
                            read_u32_be(data, magic.cursor)),
                LAMBDA page_count :
            AndThen(vec_with_capacity(page_count.v, build.alloc_limit),
                    LAMBDA vec :
                read_u32_list(data, page_count.cursor, page_count.v, TRUE,
                              vec))),
        LAMBDA header :
            safari_pages(data, header.cursor, header.v, build, EmptyStore))

-----------------------------------------------------------------------------
(* Inputs of the matching engine.                                           *)

HostAlphabet == {"a", "b", ".", "é"}
DomainAlphabet == {"a", ".", "A", " ", "É", "\n"}
PathAlphabet == {"a", "/"}

(* A URL host is never empty (the url crate reports an empty host as none);  *)
(* the hosts drawn start with a letter and hold no empty label inside: a    *)
(* single trailing dot, as in "a.", is kept by the url crate.               *)
ValidHost(h) ==
    /\ h /= <<>>
    /\ h[1] /= "."
    /\ \A i \in 1..Len(h) - 1 : ~(h[i] = "." /\ h[i + 1] = ".")

Hosts == {h \in StringsUpTo(HostAlphabet, MaxHostLen) : ValidHost(h)}
(* Cookie domains with chars beyond ASCII: an em space and a vertical tab   *)
(* around a name, a no-break space before and inside a name, a capital A    *)
(* with macron, a capital I with dot above (whose lower case is two chars), *)
(* and a capital sigma at the end, at the start and inside a word.          *)
WideDomains ==
    {<<CodePointChar(8195), "a", CodePointChar(11)>>,
     <<CodePointChar(160), "a">>, <<"a", CodePointChar(160), "b">>,
     <<CodePointChar(256)>>, <<CodePointChar(304)>>,
     <<"A", CodePointChar(931)>>, <<CodePointChar(931), "A">>,
     <<"A", CodePointChar(931), CodePointChar(122661)>>}

CookieDomains == StringsUpTo(DomainAlphabet, MaxDomainLen) \cup WideDomains
RequestPaths == StringsUpTo(PathAlphabet, MaxPathLen)
CookiePaths == StringsUpTo(PathAlphabet, MaxPathLen)

ExpiryValues ==
    {I64(-1), I64(0), I64(1), I64(99), I64(100), I64(101), I64(1700000000),
     BigSub(ExpirySentinel, I64(1)), ExpirySentinel,
     BigAdd(ExpirySentinel, I64(1)), BigAdd(ExpirySentinel, ExpirySentinel)}
NowValues ==
    {I64(-1), I64(0), I64(100), I64(1700000000), ExpirySentinel,
     BigAdd(ExpirySentinel, BigAdd(ExpirySentinel, ExpirySentinel))}

MatchCookies ==
    [name : {<<"s", "i", "d">>}, value : {<<"v">>},
     domain : {<<".", "a">>, <<"a">>},
     path : {<<"/">>, <<"/", "a">>},
     secure : BOOLEAN, http_only : {FALSE},
     expires : {None, Some(I64(100))}]

RECURSIVE SeqsUpTo(_, _)
SeqsUpTo(S, n) ==
    IF n = 0 THEN {<<>>}
    ELSE LET shorter == SeqsUpTo(S, n - 1) IN
         shorter \cup {Append(s, x) : s \in shorter, x \in S}

MatchUrls ==
    [scheme : {"http", "https"},
     host : {Some(<<"a">>), Some(<<"b", ".", "a">>), Some(<<"b", "a">>)},
     path : {<<"/">>, <<"/", "a", "/", "a">>, <<"/", "a", "a">>}]
    \cup {[scheme |-> "foo", host |-> Some(<<"A">>), path |-> <<>>],
          [scheme |-> "data", host |-> None, path |-> <<"a">>]}

MatchNows == {I64(99), I64(100)}

-----------------------------------------------------------------------------
(* The matching engine as a state machine: each action is one call.         *)

(* No HTTP call is in progress.                                             *)
HttpIdle ==
    /\ config = <<>>
    /\ pc = "idle"
    /\ retries_left = 0
    /\ attempts = 0
    /\ current_url = <<>>
    /\ current_method = <<>>
    /\ current_data = <<>>
    /\ redirects_followed = 0
    /\ cookie_context = <<>>
    /\ extractions = 0
    /\ requests_sent = 0
    /\ request = <<>>
    /\ response = <<>>
    /\ result = <<>>

InitMatch ==
    /\ op = "none"
    /\ input = <<>>
    /\ output = <<>>
    /\ HttpIdle

CallDomainMatches ==
    /\ op = "none"
    /\ \E h \in Hosts, d \in CookieDomains :
        /\ op' = "domain_matches"
        /\ input' = [host |-> h, cookie_domain |-> d]
        /\ output' = domain_matches(h, d)
    /\ UNCHANGED httpVars

CallPathMatches ==
    /\ op = "none"
    /\ \E p \in RequestPaths, c \in CookiePaths :
        /\ op' = "path_matches"
        /\ input' = [request_path |-> p, cookie_path |-> c]
        /\ output' = path_matches(p, c)
    /\ UNCHANGED httpVars

CallIsExpired ==
    /\ op = "none"
    /\ \E e \in {None} \cup {Some(x) : x \in ExpiryValues}, now \in NowValues :
        /\ op' = "is_expired"
        /\ input' = [expires |-> e, now |-> now]
        /\ output' = is_expired(e, now)
    /\ UNCHANGED httpVars

CallCookiesForUrl ==
    /\ op = "none"
    /\ \E cs \in SeqsUpTo(MatchCookies, MaxCookies), url \in MatchUrls,
       now \in MatchNows :
        \E order \in Orders(store_of(cs)) :
            /\ op' = "cookies_for_url"
            /\ input' = [store |-> store_of(cs), url |-> url, now |-> now]
            /\ output' = cookies_for_url(store_of(cs), order, url, now)
    /\ UNCHANGED httpVars

NextMatch ==
    \/ CallDomainMatches
    \/ CallPathMatches
    \/ CallIsExpired
    \/ CallCookiesForUrl

SpecMatch == InitMatch /\ [][NextMatch]_vars

-----------------------------------------------------------------------------
(* Store locator: find_cookie_database of the Chromium extractor            *)
(* (src/browser/chrome/linux.rs, the same code in chrome.rs) and            *)
(* firefox_search_roots / find_cookie_dbs of the Firefox extractor. A path  *)
(* is the text it was made from, as a PathBuf holds it; a file system maps  *)
(* lists of names, read from the root directory, to nodes. The system finds *)
(* the node of a path as path_resolution(7) says, without symbolic links    *)
(* and with search permission on every directory.                          *)

PathBuf_from(text) == text

(* Path::has_root, which is Path::is_absolute on Unix.                      *)
has_root(path) == path /= <<>> /\ Head(path) = "/"

(* Path::join, by PathBuf::push: an absolute argument replaces the base,    *)
(* and a separator is put in unless the base is empty or ends with one.     *)
PathBuf_join(base, rel) ==
    IF has_root(rel) THEN rel
    ELSE IF base /= <<>> /\ base[Len(base)] /= "/" THEN base \o <<"/">> \o rel
    ELSE base \o rel

(* The pieces of a path between its separators, the empty ones included:   *)
(* piece k lies between separator k - 1 and separator k, the start and the *)
(* end of the text standing for the outermost two.                         *)
separators(text) == {i \in 1..Len(text) : text[i] = "/"}

piece_bound(text, k) ==
    IF k = 0 THEN 0
    ELSE IF k > Cardinality(separators(text)) THEN Len(text) + 1
    ELSE CHOOSE i \in separators(text) :
             Cardinality({j \in separators(text) : j < i}) = k - 1

path_pieces(text) ==
    [k \in 1..(Cardinality(separators(text)) + 1) |->
        SubSeq(text, piece_bound(text, k - 1) + 1, piece_bound(text, k) - 1)]

(* Path::components on Unix without the root: '/' separates, empty          *)
(* components and "." drop out, except for a "." that starts the path;      *)
(* ".." is kept.                                                            *)
is_component(piece) == piece \notin {<<>>, <<".">>}

components(path) ==
    (IF path_pieces(path)[1] = <<".">> THEN <<path_pieces(path)[1]>> ELSE <<>>)
        \o SelectSeq(path_pieces(path), is_component)

(* Path::file_name: the last component when it is a name.                   *)
file_name(path) ==
    LET comps == components(path) IN
    IF comps = <<>> \/ comps[Len(comps)] \in {<<".">>, <<".", ".">>} THEN None
    ELSE Some(comps[Len(comps)])

(* Path::ends_with for a relative child: its components end the path's.     *)
path_ends_with(path, child) == ends_with(components(path), components(child))

(* The names a literal path leads through, from the root.                   *)
Names(literal) == components(Chars(literal))

(* The working directory against which the system resolves a relative path. *)
CurrentDir == Names("/w")

node_at(fs, names) == {n \in fs : n.path = names}

(* The system's walk along the pieces from the node at: every piece, an     *)
(* empty one and "." included, is looked up in a directory; ".." leads to   *)
(* the parent, and from the root to the root.                               *)
RECURSIVE path_walk(_, _, _)
path_walk(fs, pieces, at) ==
    IF pieces = <<>> THEN Some(at)
    ELSE IF ~\E n \in node_at(fs, at) : n.kind = "dir" THEN None
    ELSE IF Head(pieces) \in {<<>>, <<".">>} THEN path_walk(fs, Tail(pieces), at)
    ELSE IF Head(pieces) = <<".", ".">>
    THEN path_walk(fs, Tail(pieces),
                IF at = <<>> THEN at ELSE SubSeq(at, 1, Len(at) - 1))
    ELSE IF node_at(fs, Append(at, Head(pieces))) = {} THEN None
    ELSE path_walk(fs, Tail(pieces), Append(at, Head(pieces)))

(* The names of the node the system finds for the path, if it finds one;    *)
(* the empty path names nothing.                                            *)
resolve(fs, path) ==
    IF path = <<>> THEN None
    ELSE path_walk(fs, path_pieces(path),
                IF has_root(path) THEN <<>> ELSE CurrentDir)

(* fs::metadata *)
metadata(fs, path) ==
    Let(resolve(fs, path), LAMBDA found :
        IF found.some THEN node_at(fs, found.v) ELSE {})

exists(fs, path) == metadata(fs, path) /= {}

is_file(fs, path) == \E n \in metadata(fs, path) : n.kind = "file"

is_dir(fs, path) == \E n \in metadata(fs, path) : n.kind = "dir"

(* fs::read_dir succeeds on a directory the process may list.               *)
can_read_dir(fs, path) == \E n \in metadata(fs, path) : n.kind = "dir" /\ n.listable

is_prefix(a, b) == Len(a) <= Len(b) /\ SubSeq(b, 1, Len(a)) = a

(* The nodes below the directory top that a walk reaches: those of which    *)
(* every directory from top down to the parent can be listed.               *)
reached(fs, top) ==
    {n \in fs : /\ is_prefix(top, n.path)
                /\ Len(n.path) > Len(top)
                /\ \A k \in Len(top)..(Len(n.path) - 1) :
                      \E d \in fs : /\ d.path = SubSeq(n.path, 1, k)
                                    /\ d.kind = "dir" /\ d.listable}

(* DirEntry::path: the path the directory was read by, joined with the name *)
(* of the entry; for an entry further down, with one name after the other.  *)
RECURSIVE join_names(_, _)
join_names(path, names) ==
    IF names = <<>> THEN path
    ELSE join_names(PathBuf_join(path, Head(names)), Tail(names))

entry_path(root, top, n) == join_names(root, SubSeq(n.path, Len(top) + 1, Len(n.path)))

(* The directories the stack of find_files visits: root as it was given,    *)
(* and every directory below it that is reached through listable            *)
(* directories.                                                             *)
visited_dirs(fs, root) ==
    Let(resolve(fs, root), LAMBDA top :
        {root} \cup (IF top.some
                     THEN {entry_path(root, top.v, n) :
                              n \in {m \in reached(fs, top.v) : m.kind = "dir"}}
                     ELSE {}))

(* The files named filename that the walk comes across.                     *)
walk_matches(fs, root, filename) ==
    Let(resolve(fs, root), LAMBDA top :
        IF top.some
        THEN {entry_path(root, top.v, n) :
                 n \in {m \in reached(fs, top.v) :
                           m.kind = "file" /\ m.path[Len(m.path)] = filename}}
        ELSE {})

(* Chromium find_files: a directory that cannot be listed fails the walk.   *)
find_files(fs, root, filename) ==
    IF \E d \in visited_dirs(fs, root) : ~can_read_dir(fs, d)
    THEN Err("BrowserCookie")
    ELSE Ok(walk_matches(fs, root, filename))

(* Firefox find_files: a directory that cannot be listed is passed over.    *)
firefox_find_files(fs, root, filename) == walk_matches(fs, root, filename)

(* A choice among the candidates that does not look at modification times, *)
(* which is not what newest_path does.                                      *)
newest_path_any(fs, paths) == paths

(* newest_path: the candidates with the latest modification time; with      *)
(* several equally new ones the order of the walk decides.                  *)
newest_path(fs, paths) ==
    {p \in paths : \E n \in metadata(fs, p) :
        \A q \in paths : \A m \in metadata(fs, q) : m.mtime <= n.mtime}

is_path_like(value) ==
    \/ \E i \in 1..Len(value) : value[i] \in {"/", "\\"}
    \/ starts_with(value, <<"~">>)

(* &s[n..]: the text from byte n of its UTF-8 form on; None when n is past  *)
(* the end or inside a char, where the source panics.                       *)
RECURSIVE slice_from(_, _)
slice_from(s, n) ==
    IF n = 0 THEN Some(s)
    ELSE IF s = <<>> THEN None
    ELSE Let(Len(encode_utf8(CodePointOf(Head(s)))), LAMBDA width :
             IF width > n THEN None ELSE slice_from(Tail(s), n - width))

(* FileUtils::expand_path (src/utils.rs): the home directory joined with    *)
(* &path[2..].                                                              *)
expand_path(path, home) ==
    IF starts_with(path, <<"~">>)
    THEN IF ~home.some THEN Err("Config")
         ELSE Let(slice_from(path, 2), LAMBDA rest :
                  IF ~rest.some THEN Err("panic")
                  ELSE Ok(PathBuf_join(home.v, rest.v)))
    ELSE Ok(PathBuf_from(path))

(* The outcome of a locator: its result, the root it settled on (None when  *)
(* it returned before settling on one) and whether the root was walked.     *)
Located(res, root, walked) == [result |-> res, root |-> root, walked |-> walked]

search_root_of(settings, profile, expanded) ==
    IF ~profile.some THEN settings.user_data_dir
    ELSE IF is_path_like(profile.v) THEN expanded
    ELSE IF settings.supports_profiles
    THEN PathBuf_join(settings.user_data_dir, PathBuf_from(profile.v))
    ELSE settings.user_data_dir

TextCookies == Chars("Cookies")
TextCookiesSqlite == Chars("cookies.sqlite")

(* The search of find_cookie_database from the root it settled on.          *)
search_from(fs, search_root) ==
    IF ~exists(fs, search_root)
    THEN {Located(Err("FileNotFound"), Some(search_root), FALSE)}
    ELSE Let(find_files(fs, search_root, TextCookies), LAMBDA candidates :
         IF ~candidates.ok THEN {Located(candidates, Some(search_root), TRUE)}
         ELSE IF newest_path(fs, candidates.val) = {}
         THEN {Located(Err("FileNotFound"), Some(search_root), TRUE)}
         ELSE {Located(Ok(p), Some(search_root), TRUE) :
                  p \in newest_path(fs, candidates.val)})

(* find_cookie_database: the set of outcomes the walk order allows.         *)
find_cookie_database(fs, home, settings, profile) ==
    IF profile.some /\ is_path_like(profile.v)
    THEN Let(expand_path(profile.v, home), LAMBDA expanded :
         IF ~expanded.ok THEN {Located(expanded, None, FALSE)}
         ELSE IF is_file(fs, expanded.val)
         THEN {Located(Ok(expanded.val), None, FALSE)}
         ELSE search_from(fs, search_root_of(settings, profile, expanded.val)))
    ELSE search_from(fs, search_root_of(settings, profile, <<>>))

FirefoxProfilesDir == Chars("Library/Application Support/Firefox/Profiles")

(* firefox_search_roots: the home directory is asked for first.             *)
firefox_search_roots(profile, home) ==
    IF ~home.some THEN Err("Config")
    ELSE IF profile.some /\ is_path_like(profile.v)
    THEN expand_path(profile.v, home)
    ELSE IF profile.some
    THEN Ok(PathBuf_join(PathBuf_join(home.v, FirefoxProfilesDir),
                         PathBuf_from(profile.v)))
    ELSE Ok(PathBuf_join(home.v, FirefoxProfilesDir))

(* find_cookie_dbs for the one root firefox_search_roots gives.             *)
find_cookie_dbs(fs, root) ==
    IF is_file(fs, root) /\ path_ends_with(root, TextCookiesSqlite)
    THEN {root}
    ELSE IF exists(fs, root)
    THEN firefox_find_files(fs, root, TextCookiesSqlite)
    ELSE {}

(* The first two statements of the Firefox extract_cookies.                 *)
firefox_locate(fs, home, profile) ==
    Let(firefox_search_roots(profile, home), LAMBDA root :
    IF ~root.ok THEN {Located(root, None, FALSE)}
    ELSE Let(is_file(fs, root.val) /\ path_ends_with(root.val, TextCookiesSqlite),
             LAMBDA direct :
         IF newest_path(fs, find_cookie_dbs(fs, root.val)) = {}
         THEN {Located(Err("FileNotFound"), Some(root.val),
                       ~direct /\ exists(fs, root.val))}
         ELSE {Located(Ok(p), Some(root.val), ~direct /\ exists(fs, root.val)) :
                  p \in newest_path(fs, find_cookie_dbs(fs, root.val))}))

(* ---- Safari, src/browser/safari.rs: the steps around the parse ---- *)

SafariPrimaryPath == Chars("~/Library/Cookies/Cookies.binarycookies")

SafariSecondaryPath ==
    Chars("~/Library/Containers/com.apple.Safari/Data/Library/Cookies/Cookies.binarycookies")

expand_home(path, home) == expand_path(path, home)

(* safari_cookie_path: a profile is the path of the cookie file itself;     *)
(* without one the two default places are tried in order.                   *)
safari_cookie_path(profile, home, fs) ==
    IF profile.some
    THEN AndThen(expand_path(profile.v, home), LAMBDA expanded :
             IF is_file(fs, expanded) THEN Ok(expanded) ELSE Err("FileNotFound"))
    ELSE AndThen(expand_home(SafariPrimaryPath, home), LAMBDA primary :
             IF is_file(fs, primary) THEN Ok(primary)
             ELSE AndThen(expand_home(SafariSecondaryPath, home), LAMBDA secondary :
                      IF is_file(fs, secondary) THEN Ok(secondary)
                      ELSE Err("FileNotFound")))

(* The steps before the parse: the path of the cookie file and its read.    *)
safari_read(env) ==
    IF env.os /= "macos" THEN Err("Unsupported")
    ELSE AndThen(safari_cookie_path(env.profile, env.home, env.fs),
                 LAMBDA cookies_path :
             IF env.fail = "read" THEN Err("BrowserCookie") ELSE Ok(cookies_path))

safari_extract_cookies_empty_ok(env, data) ==
    AndThen(safari_read(env), LAMBDA read :
        parse_safari_cookies(data, env.build))

safari_extract_cookies(env, data) ==
    AndThen(safari_read(env), LAMBDA read :
    AndThen(parse_safari_cookies(data, env.build), LAMBDA store :
        IF store = EmptyStore THEN Err("BrowserCookie") ELSE Ok(store)))

(* Inputs of the locators: file systems, home directories and profile       *)
(* selectors.                                                               *)

Dir(path) == [path |-> path, kind |-> "dir", mtime |-> 0, listable |-> TRUE]
LockedDir(path) == [path |-> path, kind |-> "dir", mtime |-> 0, listable |-> FALSE]
File(path, mtime) == [path |-> path, kind |-> "file", mtime |-> mtime, listable |-> FALSE]

HomeDir == Chars("/h")
UserDataDir == Chars("/u")
FirefoxBase == PathBuf_join(HomeDir, FirefoxProfilesDir)

(* The directories that lead to the node of the given names.                *)
Ancestors(names) == {Dir(SubSeq(names, 1, k)) : k \in 0..(Len(names) - 1)}

FsBare ==
    {Dir(Names("/h")), Dir(Names("/u")), Dir(Names("/w")), Dir(Names("/h/e"))}
    \cup Ancestors(components(FirefoxBase)) \cup {Dir(components(FirefoxBase))}

FsSample ==
    FsBare
    \cup {Dir(Names("/u/D")), File(Names("/u/D/Cookies"), 1),
          Dir(Names("/u/P")), File(Names("/u/P/Cookies"), 2),
          File(Names("/u/x"), 3), File(Names("/h/x"), 4),
          File(Names("/h/cookies.sqlite"), 5), File(Names("/w/a\\b"), 8),
          Dir(Names("/w/d")), File(Names("/w/d/Cookies"), 9),
          Dir(components(FirefoxBase) \o Names("P")),
          File(components(FirefoxBase) \o Names("P/cookies.sqlite"), 6),
          Dir(components(FirefoxBase) \o Names("Q")),
          File(components(FirefoxBase) \o Names("Q/cookies.sqlite"), 7)}

FsLocked ==
    FsSample \cup {LockedDir(Names("/u/K")),
                   LockedDir(components(FirefoxBase) \o Names("K"))}

FileSystems == {FsBare, FsSample, FsLocked}

Homes == {None, Some(HomeDir)}

(* Profile selectors: names, paths with a tilde (one of them with a char of *)
(* two bytes after it), absolute paths, and paths that are relative, end in *)
(* a separator or lead through "..".                                        *)
LocatorProfiles ==
    {None}
    \cup {Some(Chars(t)) : t \in
            {"P", "N", "x", "~", "~/x", "~/e", "~xe", "/h/x", "/u/P", "/n",
             "a\\b", "~/cookies.sqlite", "d/", "./", "/u/x/", "~/x/",
             "/u/P/../D", "~é"}}

LocatorSettings ==
    {[user_data_dir |-> UserDataDir, supports_profiles |-> b] : b \in BOOLEAN}

-----------------------------------------------------------------------------
(* Inputs of the extractors.                                                *)

(* expires_utc values: 0; 13_350_000_000_000_000 (2024-01-17 21:20:00 UTC,  *)
(* Unix second 1_705_526_400); the Unix epoch itself; one second after it;  *)
(* one microsecond after 1601; a second and a half before 1601.             *)
ExpiresUtcNever == BigZero
ExpiresUtc2024 == BigOf(FALSE, <<13350, 0, 0>>)
ExpiresUtcUnixEpoch == BigOf(FALSE, <<11644, 473600, 0>>)
ExpiresUtcUnixEpochPlus1 == BigOf(FALSE, <<11644, 473601, 500000>>)
ExpiresUtcTiny == I64(1)
ExpiresUtcNegative == BigOf(TRUE, <<1, 500000>>)

ChromiumRow(host_key, value, enc_type, encrypted_value, expires_utc, secure) ==
    [host_key |-> host_key, name |-> <<"s", "i", "d">>, value |-> value,
     enc_type |-> enc_type, encrypted_value |-> encrypted_value,
     path |-> <<"/">>, expires_utc |-> expires_utc, secure |-> secure,
     http_only |-> 0, readable |-> TRUE]

PlainRows ==
    {ChromiumRow(<<".", "a">>, <<"a", "b">>, "blob", <<>>, e, 1) :
        e \in {ExpiresUtcNever, ExpiresUtc2024, ExpiresUtcUnixEpoch,
               ExpiresUtcUnixEpochPlus1, ExpiresUtcTiny, ExpiresUtcNegative}}
    \cup {ChromiumRow(<<"b">>, <<"a">>, "null", <<>>, ExpiresUtcNever, 0),
          ChromiumRow(<<"b">>, <<"c">>, "blob", TagV10 \o <<1>>, ExpiresUtcNever, 0),
          ChromiumRow(<<"b">>, <<"c">>, "blob", TagV20 \o <<1>>, ExpiresUtcNever, 0)}

EncryptedValues ==
    {TagV10 \o <<1>>, TagV10 \o <<2>>, TagV10 \o <<3>>, TagV10 \o <<4>>,
     TagV10 \o <<8>>, TagV10 \o <<9>>, TagV11 \o <<5>>, TagV10 \o <<6>>,
     TagV10 \o GcmCt(1), TagV10 \o GcmCt(2), TagV10 \o GcmCt(3),
     <<1, 0, 0, 0>>, <<118, 49>>, TagV20 \o <<1>>, <<97, 98, 97>>}

EncryptedRows ==
    {ChromiumRow(<<"b">>, <<>>, "blob", ev, ExpiresUtc2024, 0) :
        ev \in EncryptedValues}
    \cup {ChromiumRow(<<"b">>, <<>>, "text", TagV10 \o <<1>>, ExpiresUtcNever, 0),
          ChromiumRow(<<"b">>, <<>>, "null", <<>>, ExpiresUtcNever, 0),
          ChromiumRow(<<"b">>, <<>>, "blob", <<>>, ExpiresUtcNever, 0),
          ChromiumRow(<<"b">>, <<"a">>, "integer", <<>>, ExpiresUtcNever, 0),
          [ChromiumRow(<<"b">>, <<"a">>, "blob", <<>>, ExpiresUtcNever, 0)
              EXCEPT !.readable = FALSE]}

ChromiumRows == PlainRows \cup EncryptedRows

(* The encrypted values handed to a decryptor by itself.                    *)
DecryptValues ==
    EncryptedValues
    \cup {TagV10 \o <<7>>, TagV10 \o <<10>>, TagV10 \o <<11>>, TagV10 \o <<13>>,
          TagV11 \o <<1>>, TagV11 \o <<3>>, TagV11 \o <<12>>, TagV11 \o <<14>>,
          TagV10 \o GcmCt(4), <<1, 0, 0, 1>>, <<1, 0, 0, 2>>, <<>>,
          TagV10 \o <<15>>, TagV10 \o <<16>>, TagV10 \o <<17>>,
          TagV10 \o GcmCt(5),
          <<195, 169, 97, 98>>}

MetaVersions == {0, 23, 24}

FailStages == {"tempdir", "copy", "open", "schema", "prepare", "query"}

(* Keyring overrides: names of keyrings in several spellings (one with the  *)
(* Kelvin sign U+212A, whose lower case is the letter k), and texts that    *)
(* name none.                                                               *)
KeyringOverrides ==
    {<<"B", "a", "s", "i", "c", "T", "e", "x", "t">>, <<"G", "N", "O", "M", "E">>,
     <<"k", "w", "a", "l", "l", "e", "t">>,
     <<CodePointChar(8490), "w", "a", "l", "l", "e", "t">>}

BadKeyringOverrides ==
    {<<"k", "d", "e">>, <<>>, <<"g", "n", "o", "m", "e", " ">>,
     <<"k", "w", "a", "l", "l", "e", "t", "4">>}

LinuxKeyring(override, chosen, lookup) ==
    [override |-> override, chosen |-> chosen, lookup |-> lookup]

(* The Local State file next to the user data of Chromium on Windows.       *)
LocalState(state) == [local_state |-> state]

ChromiumSecrets(os) ==
    IF os = "linux"
    THEN {LinuxKeyring(None, "BasicText", "found"),
          LinuxKeyring(None, "KWallet5", "exit_status"),
          LinuxKeyring(None, "GnomeKeyring", "found")}
    ELSE IF os = "macos" THEN {None, Some(KeychainPassword)}
    ELSE {LocalState(f) : f \in {"absent", "unreadable", "bad_json", "no_key",
                                 "bad_base64", "bad_prefix", "dpapi_failed",
                                 "short_key", "ok"}}

(* The keyrings a Linux decryptor is built for by itself: those of the      *)
(* extractions, and a KWallet of each kind with each outcome of the helper. *)
LinuxDecryptKeyrings ==
    ChromiumSecrets("linux")
    \cup {LinuxKeyring(None, "KWallet", "spawn_failed"),
          LinuxKeyring(None, "KWallet6", "failed_to_read"),
          LinuxKeyring(None, "KWallet", "found"),
          LinuxKeyring(None, "GnomeKeyring", "failed")}

(* The keychain passwords a macOS decryptor is built for by itself: that of *)
(* the extractions, the same followed by a zero byte, the long password and *)
(* its SHA-1 hash.                                                          *)
MacDecryptKeychains ==
    ChromiumSecrets("macos")
    \cup {Some(KeychainPassword \o <<0>>), Some(LongPassword),
          Some(sha1(LongPassword))}

DecryptSecrets(os) ==
    IF os = "linux" THEN LinuxDecryptKeyrings
    ELSE IF os = "macos" THEN MacDecryptKeychains
    ELSE ChromiumSecrets(os)

DefaultSecret(os) ==
    IF os = "linux" THEN LinuxKeyring(None, "GnomeKeyring", "found")
    ELSE IF os = "macos" THEN Some(KeychainPassword)
    ELSE LocalState("ok")

(* Every directory of the environment can be determined.                    *)
AllDirs ==
    [config_dir |-> TRUE, home_dir |-> TRUE, local_appdata |-> TRUE,
     appdata |-> TRUE]

DirChoices ==
    [config_dir : BOOLEAN, home_dir : BOOLEAN, local_appdata : BOOLEAN,
     appdata : BOOLEAN]

TheDatabase == Ok(Chars("/u/D/Cookies"))

(* The failures of find_cookie_database and of the Firefox locator over     *)
(* the file systems, home directories and profiles of the locator inputs.   *)
ChromiumLocateFailures ==
    {r \in {o.result : o \in
               UNION {find_cookie_database(fs, home, settings, profile) :
                         fs \in FileSystems, home \in Homes,
                         settings \in LocatorSettings,
                         profile \in LocatorProfiles}} : ~r.ok}

FirefoxLocateFailures ==
    {r \in {o.result : o \in
               UNION {firefox_locate(fs, home, profile) :
                         fs \in FileSystems, home \in Homes,
                         profile \in LocatorProfiles}} : ~r.ok}

Env(os, fail, meta_version, secret, io_kind) ==
    [os |-> os, fail |-> fail, meta_version |-> meta_version,
     secret |-> secret, io_kind |-> io_kind, dirs |-> AllDirs,
     located |-> TheDatabase]

ChromiumEnvs ==
    UNION {{Env(os, "none", m, k, "BrowserCookie") :
                m \in {0, 24}, k \in ChromiumSecrets(os)}
           \cup {Env(os, f, 0, DefaultSecret(os), io) :
                f \in FailStages, io \in MapCookieIoErrorKinds}
           \cup {Env("windows", "none", 0, LocalState("unreadable"), io) :
                io \in MapCookieIoErrorKinds}
           \cup {[Env(os, "none", 0, DefaultSecret(os), "BrowserCookie")
                     EXCEPT !.dirs = d] : d \in DirChoices}
           \cup {[Env(os, "none", 0, DefaultSecret(os), "BrowserCookie")
                     EXCEPT !.located = r] : r \in ChromiumLocateFailures}
           : os \in {"macos", "linux", "windows"}}
    \cup {Env("linux", "none", 0, LinuxKeyring(Some(k), "GnomeKeyring", "found"),
               "BrowserCookie") : k \in KeyringOverrides \cup BadKeyringOverrides}
    \cup {[Env("linux", "none", 0,
                LinuxKeyring(Some(k), "GnomeKeyring", "found"), "BrowserCookie")
              EXCEPT !.located = Err("FileNotFound")] : k \in BadKeyringOverrides}

FirefoxRow(expiry, readable) ==
    [host |-> <<".", "a">>, name |-> <<"s", "i", "d">>, value |-> <<"a", "b">>,
     path |-> <<"/">>, expiry |-> expiry, secure |-> 0, http_only |-> 1,
     readable |-> readable, originAttributes |-> <<>>]

(* 1_700_000_000_000 milliseconds and 1_700_000_000 seconds.                *)
FirefoxPlainRows ==
    {FirefoxRow(e, TRUE) :
        e \in {None, Some(BigOf(FALSE, <<1, 700000, 0>>)),
               Some(I64(1700000000)), Some(I64(999)), Some(I64(1000)),
               Some(I64(0)), Some(I64(-5)), Some(I64(-1000))}}
    \cup {FirefoxRow(None, FALSE)}

(* The originAttributes of rows of containers 2, 12, 21 and -1, of rows of  *)
(* no container, of a row whose key is spelt in lower case, and of rows     *)
(* with a NUL before and after the key of container 2.                      *)
OriginAttributes ==
    {<<"^">> \o TextUserContextIdEq \o <<"2">>,
     <<"^">> \o TextUserContextIdEq \o <<"2", "&", "p", "=", "1">>,
     <<"^", "p", "=", "1", "&">> \o TextUserContextIdEq \o <<"2">>,
     <<"^">> \o TextUserContextIdEq \o <<"1", "2">>,
     <<"^">> \o TextUserContextIdEq \o <<"2", "1">>,
     <<"^">> \o TextUserContextIdEq \o <<"2", "1", "&", "p", "=", "1">>,
     <<"^">> \o TextUserContextIdEq \o <<"1">>,
     <<"^", "p", "=", "1">>,
     <<"^">> \o to_lowercase(TextUserContextIdEq) \o <<"2">>,
     <<"^">> \o TextUserContextIdEq \o <<"-", "1">>,
     <<"a", CodePointChar(0), "^">> \o TextUserContextIdEq \o <<"2">>,
     <<"^">> \o TextUserContextIdEq \o <<"2", CodePointChar(0), "x">>}

(* A row of a container carries its originAttributes as its value, so that  *)
(* a cookie of the store tells the row it was read from.                    *)
FirefoxContainerRow(attributes) ==
    [FirefoxRow(None, TRUE) EXCEPT !.value = attributes,
                                   !.originAttributes = attributes]

FirefoxRows ==
    FirefoxPlainRows \cup {FirefoxContainerRow(a) : a \in OriginAttributes}

ContainerWork == <<"W", "o", "r", "k">>
ContainerHome == <<"H", "o", "m", "e">>

Identity(name, l10nID, userContextId) ==
    [name |-> name, l10nID |-> l10nID, userContextId |-> userContextId]

IdentityWork == Identity(Some(ContainerWork), None, Some(2))
IdentityWorkL10n ==
    Identity(None, Some(TextUserContext \o ContainerWork \o TextDotLabel), Some(1))
IdentityWorkNoId == Identity(Some(ContainerWork), None, None)
IdentityHome == Identity(Some(ContainerHome), Some(TextUserContext), Some(3))
IdentityHomeNegative == Identity(Some(ContainerHome), None, Some(-1))

(* A container that the user named "none".                                  *)
IdentityNone == Identity(Some(TextNone), None, Some(4))

ContainersJson(state, identities) == [state |-> state, identities |-> identities]

(* The container of the configuration and the containers.json it meets.     *)
FirefoxContainers ==
    {[container |-> None, containers_json |-> ContainersJson("absent", <<>>)],
     [container |-> Some(TextNone), containers_json |-> ContainersJson("absent", <<>>)],
     [container |-> Some(TextNone),
      containers_json |-> ContainersJson("read", <<IdentityNone>>)]}
    \cup {[container |-> Some(ContainerWork), containers_json |-> j] : j \in
            {ContainersJson("absent", <<>>), ContainersJson("unreadable", <<>>),
             ContainersJson("bad_json", <<>>), ContainersJson("read", <<>>),
             ContainersJson("read", <<IdentityHome>>),
             ContainersJson("read", <<IdentityWorkNoId>>),
             ContainersJson("read", <<IdentityHome, IdentityWork>>),
             ContainersJson("read", <<IdentityWorkNoId, IdentityWorkL10n>>)}}
    \cup {[container |-> Some(ContainerHome),
           containers_json |-> ContainersJson("read", <<IdentityHomeNegative>>)]}

FirefoxNoContainer ==
    [container |-> None, containers_json |-> ContainersJson("absent", <<>>)]

FirefoxEnvs ==
    {Env("macos", "none", v, c, "BrowserCookie") :
        v \in {15, 16}, c \in FirefoxContainers}
    \cup {Env("macos", f, 16, FirefoxNoContainer, io) :
        f \in FailStages, io \in MapCookieIoErrorKinds}
    \cup {Env("macos", "none", 16, c, io) :
        c \in FirefoxContainers, io \in MapCookieIoErrorKinds}
    \cup {[Env("macos", "none", 16, FirefoxNoContainer, "BrowserCookie")
              EXCEPT !.located = r] : r \in FirefoxLocateFailures}
    \cup {Env("linux", "none", 16, FirefoxNoContainer, "BrowserCookie")}

(* Writers of the .binarycookies layout, used to build the buffers.         *)
u32_le(n) == <<n % 256, (n \div 256) % 256, 0, 0>>
u32_be(n) == <<0, 0, (n \div 256) % 256, n % 256>>

RECURSIVE FlatLen(_)
FlatLen(parts) == IF parts = <<>> THEN 0 ELSE Len(Head(parts)) + FlatLen(Tail(parts))

RECURSIVE Flat(_)
Flat(parts) == IF parts = <<>> THEN <<>> ELSE Head(parts) \o Flat(Tail(parts))

SafariRecordBytes(domain, name, path, value, flags, expiration) ==
    LET d == 56
        n == d + Len(domain) + 1
        p == n + Len(name) + 1
        v == p + Len(path) + 1
        size == v + Len(value) + 1
    IN u32_le(size) \o <<0, 0, 0, 0>> \o u32_le(flags) \o <<0, 0, 0, 0>>
       \o u32_le(d) \o u32_le(n) \o u32_le(p) \o u32_le(v)
       \o <<0, 0, 0, 0, 0, 0, 0, 0>> \o expiration \o <<0, 0, 0, 0, 0, 0, 0, 0>>
       \o domain \o <<0>> \o name \o <<0>> \o path \o <<0>> \o value \o <<0>>

SafariPageBytes(records) ==
    LET count == Len(records)
        start == 8 + 4 * count
    IN SAFARI_PAGE_MAGIC \o u32_le(count)
       \o Flat([i \in 1..count |->
                    u32_le(start + FlatLen(SubSeq(records, 1, i - 1)))])
       \o Flat(records)

SafariFileBytes(pages) ==
    SAFARI_COOKIE_MAGIC \o u32_be(Len(pages))
    \o Flat([i \in 1..Len(pages) |-> u32_be(Len(pages[i]))])
    \o Flat(pages)

(* f64 bit patterns, least significant byte first: 0.0, 700000000.0, 1e19,  *)
(* NaN and -1.5.                                                             *)
F64Zero == <<0, 0, 0, 0, 0, 0, 0, 0>>
F64SevenE8 == <<0, 0, 0, 128, 147, 220, 196, 65>>
F64TenE18 == <<0, 61, 145, 96, 228, 88, 225, 67>>
F64NaN == <<0, 0, 0, 0, 0, 0, 248, 127>>
F64MinusOneAndHalf == <<0, 0, 0, 0, 0, 0, 248, 191>>

SafariRecords_first ==
    SafariRecordBytes(<<46, 97>>, <<97>>, <<47>>, <<98>>, 1, F64SevenE8)

SafariRecords_huge ==
    SafariRecordBytes(<<98>>, <<97>>, <<47>>, <<98>>, 0, F64TenE18)

SafariRecords ==
    {SafariRecordBytes(<<46, 97>>, <<97>>, <<47>>, <<98>>, 1, F64SevenE8),
     SafariRecordBytes(<<98>>, <<97>>, <<47>>, <<>>, 0, F64Zero),
     SafariRecordBytes(<<98>>, <<97>>, <<47>>, <<98>>, 0, F64NaN),
     SafariRecordBytes(<<98>>, <<97>>, <<47>>, <<98>>, 0, F64MinusOneAndHalf),
     SafariRecordBytes(<<98>>, <<97>>, <<47>>, <<98>>, 0, F64TenE18),
     SafariRecordBytes(<<>>, <<97>>, <<47>>, <<98>>, 0, F64Zero),
     SafariRecordBytes(<<98>>, <<>>, <<47>>, <<98>>, 0, F64TenE18),
     SafariRecordBytes(<<98>>, <<97, 255>>, <<47>>, <<98>>, 0, F64Zero)}

SafariSampleFile ==
    SafariFileBytes(<<SafariPageBytes(
        <<SafariRecordBytes(<<46, 97>>, <<97>>, <<47>>, <<98>>, 1, F64SevenE8)>>)>>)

(* A page whose only record offset points past the end of the page.         *)
SafariStrayOffsetFile ==
    SafariFileBytes(<<SAFARI_PAGE_MAGIC \o u32_le(1) \o u32_le(200)>>)

(* The pages of the valid buffers that are cut short: no page, one page     *)
(* without a record, one page of one record, two pages of one record each.  *)
SafariTruncatedPages ==
    {<<>>, <<SafariPageBytes(<<>>)>>}
    \cup {<<SafariPageBytes(<<r>>)>> : r \in SafariRecords}
    \cup {<<SafariPageBytes(<<SafariRecords_first>>), SafariPageBytes(<<r>>)>> :
            r \in SafariRecords}
    \cup {<<SafariPageBytes(<<SafariRecords_huge>>),
            SafariPageBytes(<<SafariRecords_first>>)>>}

(* Buffers no writer produces: counts, sizes and offsets of 2^32 - 1, 2^31, *)
(* 2^31 - 1 and 2^30, a wrong signature, a string without its terminator.   *)
SafariHostileFiles ==
    {SAFARI_COOKIE_MAGIC \o <<255, 255, 255, 255>>,
     SAFARI_COOKIE_MAGIC \o <<127, 255, 255, 255>> \o <<0, 0, 0, 0>>,
     SAFARI_COOKIE_MAGIC \o <<64, 0, 0, 0>> \o <<0, 0, 0, 0>>,
     SafariFileBytes(<<SAFARI_PAGE_MAGIC \o <<0, 0, 0, 64>> \o u32_le(12)>>),
     SAFARI_COOKIE_MAGIC \o u32_be(1) \o <<255, 255, 255, 255>> \o SAFARI_PAGE_MAGIC,
     SAFARI_COOKIE_MAGIC \o u32_be(2) \o u32_be(8) \o <<128, 0, 0, 0>>
        \o SAFARI_PAGE_MAGIC \o u32_le(0),
     SafariFileBytes(<<SAFARI_PAGE_MAGIC \o <<255, 255, 255, 255>>>>),
     SafariFileBytes(<<SAFARI_PAGE_MAGIC \o u32_le(1) \o <<255, 255, 255, 255>>>>),
     SafariFileBytes(<<SAFARI_PAGE_MAGIC \o u32_le(1) \o u32_le(12)
        \o u32_le(56) \o <<0, 0, 0, 0>> \o u32_le(0) \o <<0, 0, 0, 0>>
        \o <<255, 255, 255, 255>> \o u32_le(56) \o u32_le(56) \o u32_le(56)
        \o <<0, 0, 0, 0, 0, 0, 0, 0>> \o F64Zero \o F64Zero>>),
     SafariFileBytes(<<SAFARI_PAGE_MAGIC \o u32_le(1) \o u32_le(12)
        \o u32_le(57) \o <<0, 0, 0, 0>> \o u32_le(0) \o <<0, 0, 0, 0>>
        \o u32_le(56) \o u32_le(56) \o u32_le(56) \o u32_le(56)
        \o <<0, 0, 0, 0, 0, 0, 0, 0>> \o F64Zero \o F64Zero \o <<97>>>>),
     SafariFileBytes(<<<<0, 0, 1, 1>> \o u32_le(0)>>),
     <<99, 111, 111, 75>> \o u32_be(0),
     SafariSampleFile \o <<7, 23>>}

(* A page of two record offsets: the first points at the one record of the  *)
(* page, the second at or past the end of the page.                         *)
SafariStrayRecordPage(stray) ==
    SAFARI_PAGE_MAGIC \o u32_le(2) \o u32_le(16) \o u32_le(stray)
    \o SafariRecords_first

SafariStrayRecordFiles ==
    {SafariFileBytes(<<SafariStrayRecordPage(n)>>) :
        n \in {Len(SafariStrayRecordPage(0)), Len(SafariStrayRecordPage(0)) + 1, 200}}

(* A record one of whose four string offsets is the length of the record    *)
(* data (the record is the last of its page) or more.                       *)
SafariStrayStringRecord(field, stray) ==
    LET r == SafariRecords_first IN
    [i \in 1..Len(r) |->
        IF i = 13 + 4 * field THEN stray % 256
        ELSE IF i = 14 + 4 * field THEN stray \div 256
        ELSE r[i]]

SafariStrayStringFiles ==
    {SafariFileBytes(<<SafariPageBytes(<<SafariStrayStringRecord(field, n)>>)>>) :
        field \in 1..4, n \in {Len(SafariRecords_first), 300}}

SafariFiles ==
    {SafariFileBytes(<<SafariPageBytes(rs)>>) :
        rs \in SeqsUpTo(SafariRecords, MaxRecords)}
    \cup {SafariFileBytes(<<SafariPageBytes(<<r>>), SafariPageBytes(<<r>>)>>) :
        r \in SafariRecords}
    \cup UNION {{SubSeq(SafariFileBytes(pages), 1, n) :
                    n \in 0..Len(SafariFileBytes(pages))} :
                pages \in SafariTruncatedPages}
    \cup SafariHostileFiles
    \cup SafariStrayRecordFiles
    \cup SafariStrayStringFiles
    \cup {SafariStrayOffsetFile}

(* The allocator grants every request, or refuses those above 2^33 bytes.   *)
AllocLimits == {None, Some(BigOf(FALSE, <<8589, 934592>>))}

SafariBuilds == [overflow_checks : BOOLEAN, alloc_limit : AllocLimits]

(* A file system that holds one file and the directories that lead to it,  *)
(* next to the home and the working directory.                              *)
FsWithFile(literal) ==
    {Dir(<<>>), Dir(Names("/h")), Dir(Names("/w")), File(Names(literal), 0)}
    \cup Ancestors(Names(literal))

SafariPrimaryFile == FsWithFile("/h/Library/Cookies/Cookies.binarycookies")
SafariSecondaryFile ==
    FsWithFile("/h/Library/Containers/com.apple.Safari/Data/Library/Cookies/Cookies.binarycookies")
SafariNoFile == {Dir(<<>>), Dir(Names("/h")), Dir(Names("/w"))}

SafariEnv(os, home, profile, fs, fail, build) ==
    [os |-> os, home |-> home, profile |-> profile, fs |-> fs, fail |-> fail,
     build |-> build]

(* The environments in which every buffer is parsed: the cookie file is at  *)
(* its first default place and is read.                                     *)
SafariParseEnvs ==
    {SafariEnv("macos", Some(HomeDir), None, SafariPrimaryFile, "none", b) :
        b \in SafariBuilds}

SafariDefaultBuild == [overflow_checks |-> TRUE, alloc_limit |-> None]

(* The environments that differ in where the cookie file is looked for.     *)
SafariPathEnvs ==
    {SafariEnv("macos", home, profile, fs, "none", SafariDefaultBuild) :
        home \in {None, Some(HomeDir)},
        profile \in {None, Some(Chars("~")), Some(Chars("~/c")), Some(Chars("/c")),
                     Some(Chars("/c/")), Some(Chars("~é"))},
        fs \in {SafariNoFile, SafariPrimaryFile, SafariSecondaryFile,
                FsWithFile("/c"), FsWithFile("/h/c")}}
    \cup {SafariEnv("macos", Some(HomeDir), None, SafariPrimaryFile, "read",
                    SafariDefaultBuild),
          SafariEnv("linux", Some(HomeDir), None, SafariPrimaryFile, "none",
                    SafariDefaultBuild)}

SafariEnvs == SafariParseEnvs \cup SafariPathEnvs

-----------------------------------------------------------------------------
(* The extractors as a state machine: each action is one extraction.        *)

InitExtract ==
    /\ op = "none"
    /\ input = <<>>
    /\ output = <<>>
    /\ HttpIdle

CallExtractChromium ==
    /\ op = "none"
    /\ \E env \in ChromiumEnvs :
        \E rows \in IF env.dirs = AllDirs /\ env.located.ok /\ env.fail = "none"
                    THEN SeqsUpTo(ChromiumRows, MaxRows)
                    ELSE {<<>>} :
            /\ op' = "extract_chromium_cookies"
            /\ input' = [env |-> env, rows |-> rows]
            /\ output' = extract_chromium_cookies(env, rows)
    /\ UNCHANGED httpVars

CallExtractFirefox ==
    /\ op = "none"
    /\ \E env \in FirefoxEnvs :
        \E rows \in IF env.os = "macos" /\ env.located.ok /\ env.fail = "none"
                    THEN SeqsUpTo(FirefoxRows, MaxRows)
                    ELSE {<<>>} :
            /\ op' = "firefox_extract_cookies"
            /\ input' = [env |-> env, rows |-> rows]
            /\ output' = firefox_extract_cookies(env, rows)
    /\ UNCHANGED httpVars

CallExtractSafari ==
    /\ op = "none"
    /\ \E env \in SafariEnvs :
        \E data \in IF env \in SafariParseEnvs THEN SafariFiles
                    ELSE IF safari_read(env).ok THEN {SafariSampleFile}
                    ELSE {<<>>} :
            /\ op' = "safari_extract_cookies"
            /\ input' = [env |-> env, data |-> data]
            /\ output' = safari_extract_cookies(env, data)
    /\ UNCHANGED httpVars

(* A decryptor built for an environment decrypts one encrypted value.       *)
CallDecrypt ==
    /\ op = "none"
    /\ \E os \in {"macos", "linux", "windows"} :
        \E secret \in DecryptSecrets(os), m \in MetaVersions,
           io \in MapCookieIoErrorKinds :
            \E built \in {ChromiumDecryptor_new(Env(os, "none", m, secret, io))} :
                /\ built.ok
                /\ \E encrypted_value \in DecryptValues :
                      /\ op' = "decrypt"
                      /\ input' = [os |-> os, secret |-> secret, self |-> built.val,
                                   encrypted_value |-> encrypted_value]
                      /\ output' = decrypt(os, built.val, encrypted_value)
    /\ UNCHANGED httpVars

(* The container of a configuration is resolved against the containers.json *)
(* next to the database.                                                    *)
CallResolveContainer ==
    /\ op = "none"
    /\ \E c \in FirefoxContainers, io \in MapCookieIoErrorKinds :
        /\ op' = "resolve_container"
        /\ input' = [container |-> c.container,
                     containers_json |-> c.containers_json, io_kind |-> io]
        /\ output' = resolve_container(c.container, c.containers_json, io)
    /\ UNCHANGED httpVars

CallFindCookieDatabase ==
    /\ op = "none"
    /\ \E fs \in FileSystems, home \in Homes, settings \in LocatorSettings,
          profile \in LocatorProfiles :
        /\ op' = "find_cookie_database"
        /\ input' = [fs |-> fs, home |-> home, settings |-> settings,
                     profile |-> profile]
        /\ output' \in find_cookie_database(fs, home, settings, profile)
    /\ UNCHANGED httpVars

CallFirefoxLocate ==
    /\ op = "none"
    /\ \E fs \in FileSystems, home \in Homes, profile \in LocatorProfiles :
        /\ op' = "firefox_locate"
        /\ input' = [fs |-> fs, home |-> home, profile |-> profile]
        /\ output' \in firefox_locate(fs, home, profile)
    /\ UNCHANGED httpVars

NextExtract ==
    \/ CallExtractChromium
    \/ CallExtractFirefox
    \/ CallExtractSafari
    \/ CallDecrypt
    \/ CallResolveContainer
    \/ CallFindCookieDatabase
    \/ CallFirefoxLocate

SpecExtract == InitExtract /\ [][NextExtract]_vars

-----------------------------------------------------------------------------
(* The HTTP client, src/http/mod.rs. A URL is the record the url crate      *)
(* parses it into: scheme, host, port (none when it is the default port of  *)
(* the scheme) and path.                                                    *)

Url(scheme, host, port, path) ==
    [scheme |-> scheme, host |-> Some(host), port |-> port, path |-> path]

(* What the client reads of a configured URL: one that does not parse is    *)
(* the value NotAUrl.                                                       *)
NotAUrl == [scheme |-> "", host |-> None, port |-> None, path |-> <<>>]

Url_parse(text) == IF text = NotAUrl THEN Err("InvalidUrl") ELSE Ok(text)

(* Url::join on the text of a Location header: an absolute URL replaces     *)
(* the current one, an absolute path replaces the path of the current URL,  *)
(* and a text that resolves to no URL is an error. So is a path when the    *)
(* current URL cannot be a base: what follows its scheme and colon does not *)
(* start with a slash, as in mailto:a@b.                                    *)
Url_join(base, location) ==
    IF location.kind = "absolute" THEN Ok(location.url)
    ELSE IF /\ location.kind = "path"
            /\ (base.host /= None \/ (base.path /= <<>> /\ base.path[1] = "/"))
        THEN Ok([base EXCEPT !.path = location.path])
    ELSE Err("InvalidUrl")

HttpErr(kind) == [ok |-> FALSE, err |-> "Http", kind |-> kind]

RedirectLimitExceeded(limit) ==
    [ok |-> FALSE, err |-> "RedirectLimitExceeded", limit |-> limit]

eq_ignore_ascii_case(a, b) == to_ascii_lowercase(a) = to_ascii_lowercase(b)

HeaderAuthorization ==
    <<"a", "u", "t", "h", "o", "r", "i", "z", "a", "t", "i", "o", "n">>
HeaderCookie == <<"c", "o", "o", "k", "i", "e">>

is_sensitive_header(name) ==
    \/ eq_ignore_ascii_case(name, HeaderAuthorization)
    \/ eq_ignore_ascii_case(name, HeaderCookie)

(* find_cookie_header returns the value of the first header named Cookie    *)
(* that the iteration over the HashMap meets: any of them, in an order the  *)
(* map does not specify.                                                    *)
find_cookie_header(headers) ==
    IF \E h \in headers : eq_ignore_ascii_case(h[1], HeaderCookie)
    THEN {Some(h[2]) : h \in {g \in headers : eq_ignore_ascii_case(g[1], HeaderCookie)}}
    ELSE {None}

redirect_origin_key(url) ==
    <<IF url.host.some THEN url.host.v ELSE <<>>, url.port>>

(* BrowserCookieExtractor::cookies_to_header: name=value pairs joined by    *)
(* "; ".                                                                    *)
RECURSIVE cookies_to_header(_)
cookies_to_header(cookies) ==
    IF cookies = <<>> THEN <<>>
    ELSE Head(cookies).name \o <<"=">> \o Head(cookies).value
         \o (IF Tail(cookies) = <<>> THEN <<>> ELSE <<";", " ">>)
         \o cookies_to_header(Tail(cookies))

is_redirection(status) == 300 <= status /\ status <= 399

should_retry_error_any_http(err) == err.err = "Http"

should_retry_error(err) == err.err = "Http" /\ err.kind \in {"timeout", "connect"}

(* retry_delay_from_response: no delay for a status that is not retryable,  *)
(* otherwise the larger of the configured delay and a Retry-After header    *)
(* that holds a number of seconds.                                          *)
retry_delay_from_response(status, retry_after, default_delay) ==
    IF status \notin {408, 429, 500, 502, 503, 504, 522, 524} THEN None
    ELSE IF retry_after.some /\ retry_after.v > default_delay
    THEN Some(retry_after.v)
    ELSE Some(default_delay)

request_headers_forward_all(headers, same_origin, location_trusted) == headers

(* The headers of config.headers that a request carries.                    *)
request_headers(headers, same_origin, location_trusted) ==
    {h \in headers : ~(~same_origin /\ is_sensitive_header(h[1]) /\ ~location_trusted)}

(* The request of one turn of the loop of execute_with_history_once, for    *)
(* the value of the user's Cookie header that find_cookie_header gives and  *)
(* the cookies that cookies_for_url gives.                                  *)
build_request(cfg, initial_origin, url, method, data, cookies, existing) ==
    Let(redirect_origin_key(url) = initial_origin, LAMBDA same_origin :
        [url |-> url,
         method |-> method,
         headers |-> request_headers(cfg.headers, same_origin, cfg.location_trusted),
         user_agent |-> cfg.user_agent,
         basic_auth |->
             IF (same_origin \/ cfg.location_trusted)
                /\ cfg.auth_username.some /\ cfg.auth_password.some
             THEN Some(<<cfg.auth_username.v, cfg.auth_password.v>>)
             ELSE None,
         body |-> data,
         cookie |->
             IF cookies = <<>> THEN None
             ELSE IF (same_origin \/ cfg.location_trusted) /\ existing.some
             THEN Some(existing.v \o <<";", " ">> \o cookies_to_header(cookies))
             ELSE Some(cookies_to_header(cookies))])

(* The characters of a header name (a token of RFC 7230).                   *)
HeaderNameChars ==
    {UpperLetters[i] : i \in 1..26} \cup {LowerLetters[i] : i \in 1..26}
    \cup {DecimalDigits[i] : i \in 1..10}
    \cup {"!", "#", "$", "%", "&", "'", "*", "+", "-", ".", "^", "_", "|", "~",
          CodePointChar(96)}

(* The length the http crate allows a header name, applied by             *)
(* RequestBuilder::header.                                                  *)
MAX_HEADER_NAME_LEN == 65535

(* HeaderName::try_from: one to MAX_HEADER_NAME_LEN token characters.       *)
valid_header_name(name) ==
    /\ name /= <<>>
    /\ Len(name) <= MAX_HEADER_NAME_LEN
    /\ \A i \in 1..Len(name) : name[i] \in HeaderNameChars

(* HeaderValue::try_from: no byte below 0x20 but the tab, and not 0x7f; the *)
(* bytes of a char beyond ASCII are all above 0x7f.                         *)
valid_header_value(value) ==
    \A i \in 1..Len(value) :
        LET cp == CodePointOf(value[i]) IN cp = 9 \/ (cp >= 32 /\ cp /= 127)

(* RequestBuilder::build: the first error met while the request was put     *)
(* together is returned, as an Http error of the builder kind. The URL must *)
(* have a host (IntoUrl), and every header added needs a valid name and a   *)
(* valid value. The request is bound to its value first (r), so that it is  *)
(* put together once however often the checks read it.                      *)
request_build(req) ==
    Let(req, LAMBDA r :
        IF /\ r.url.host.some
           /\ \A h \in r.headers : valid_header_name(h[1]) /\ valid_header_value(h[2])
           /\ r.user_agent.some => valid_header_value(r.user_agent.v)
           /\ r.cookie.some => valid_header_value(r.cookie.v)
        THEN Ok(r)
        ELSE HttpErr("builder"))

redirect_method_ignoring_flags(cfg, method, data, status_code) ==
    IF cfg.request_method_explicit THEN [method |-> method, data |-> data]
    ELSE IF method = "POST" /\ status_code \in 301..303
    THEN [method |-> "GET", data |-> None]
    ELSE IF status_code = 303 /\ method /= "GET"
    THEN [method |-> "GET", data |-> None]
    ELSE [method |-> method, data |-> data]

(* The method and the body of the request that follows a redirect.          *)
redirect_method(cfg, method, data, status_code) ==
    IF cfg.request_method_explicit THEN [method |-> method, data |-> data]
    ELSE IF method = "POST"
    THEN Let(IF status_code = 301 THEN cfg.post301
             ELSE IF status_code = 302 THEN cfg.post302
             ELSE IF status_code = 303 THEN cfg.post303
             ELSE FALSE, LAMBDA keep_post :
             IF status_code \in 301..303 /\ ~keep_post
             THEN [method |-> "GET", data |-> None]
             ELSE [method |-> method, data |-> data])
    ELSE IF status_code = 303 /\ method /= "GET"
    THEN [method |-> "GET", data |-> None]
    ELSE [method |-> method, data |-> data]

handle_response_limit_off_by_one(cfg, url, method, data, followed, resp) ==
    IF ~cfg.follow_redirects \/ ~is_redirection(resp.status)
    THEN [next |-> "return", followed |-> followed, result |-> Ok(resp)]
    ELSE IF ~resp.location.some
    THEN [next |-> "return", followed |-> followed, result |-> Ok(resp)]
    ELSE IF ~resp.location.v.text
    THEN [next |-> "return", followed |-> followed, result |-> Err("InvalidUrl")]
    ELSE IF cfg.max_redirects.some /\ followed > cfg.max_redirects.v
    THEN [next |-> "return", followed |-> followed,
          result |-> RedirectLimitExceeded(cfg.max_redirects.v)]
    ELSE Let(Url_join(url, resp.location.v), LAMBDA next_url :
             IF ~next_url.ok
             THEN [next |-> "return", followed |-> followed + 1, result |-> next_url]
             ELSE [next |-> "continue", followed |-> followed + 1,
                   url |-> next_url.val,
                   to |-> redirect_method(cfg, method, data, resp.status)])

(* What the loop does with a response: return it, fail, or go on with the   *)
(* next URL, method and body.                                               *)
handle_response(cfg, url, method, data, followed, resp) ==
    IF ~cfg.follow_redirects \/ ~is_redirection(resp.status)
    THEN [next |-> "return", followed |-> followed, result |-> Ok(resp)]
    ELSE IF ~resp.location.some
    THEN [next |-> "return", followed |-> followed, result |-> Ok(resp)]
    ELSE IF ~resp.location.v.text
    THEN [next |-> "return", followed |-> followed, result |-> Err("InvalidUrl")]
    ELSE IF cfg.max_redirects.some /\ followed >= cfg.max_redirects.v
    THEN [next |-> "return", followed |-> followed,
          result |-> RedirectLimitExceeded(cfg.max_redirects.v)]
    ELSE Let(Url_join(url, resp.location.v), LAMBDA next_url :
             IF ~next_url.ok
             THEN [next |-> "return", followed |-> followed + 1, result |-> next_url]
             ELSE [next |-> "continue", followed |-> followed + 1,
                   url |-> next_url.val,
                   to |-> redirect_method(cfg, method, data, resp.status)])

-----------------------------------------------------------------------------
(* Inputs of the HTTP client: configurations, and what the servers and the  *)
(* network answer.                                                          *)

MaxRedirectLimit == 2
MaxRetries == 1
MaxHops == 2

UrlA == Url("http", <<"a">>, None, <<"/">>)
UrlASecure == Url("https", <<"a">>, None, <<"/">>)
UrlAPort == Url("http", <<"a">>, Some(8080), <<"/">>)
UrlB == Url("http", <<"b">>, None, <<"/">>)
(* mailto:a@b, a URL without a host.                                        *)
UrlMailto ==
    [scheme |-> "mailto", host |-> None, port |-> None, path |-> <<"a", "@", "b">>]

UserAuthorization ==
    <<<<"A", "u", "t", "h", "o", "r", "i", "z", "a", "t", "i", "o", "n">>, <<"t">>>>
UserCookie == <<<<"C", "o", "o", "k", "i", "e">>, <<"u", "=", "1">>>>
UserCookieUpper == <<<<"C", "O", "O", "K", "I", "E">>, <<"w", "=", "2">>>>
UserTrace == <<<<"X", "-", "T">>, <<"1">>>>
(* A header name with a space in it, and a header value with a line feed.   *)
UserBadName == <<<<"X", " ", "Y">>, <<"1">>>>
UserBadValue == <<<<"X", "-", "V">>, <<"a", "\n", "b">>>>

Body == Some(<<"d">>)

(* Method, body and the flags that decide what a redirect does to them.     *)
MethodChoices ==
    {[method |-> "GET", data |-> None, explicit |-> FALSE, keep |-> 0],
     [method |-> "GET", data |-> Body, explicit |-> FALSE, keep |-> 0],
     [method |-> "POST", data |-> Body, explicit |-> TRUE, keep |-> 0],
     [method |-> "PUT", data |-> Body, explicit |-> TRUE, keep |-> 0],
     [method |-> "PUT", data |-> Body, explicit |-> FALSE, keep |-> 0]}
    \cup {[method |-> "POST", data |-> Body, explicit |-> FALSE, keep |-> k] :
            k \in {0, 301, 302, 303}}

HttpConfig(url, m, trusted, follow, limit, retries, headers, password, cookies) ==
    [url |-> url, method |-> m.method, data |-> m.data,
     request_method_explicit |-> m.explicit,
     post301 |-> m.keep = 301, post302 |-> m.keep = 302, post303 |-> m.keep = 303,
     location_trusted |-> trusted, follow_redirects |-> follow,
     max_redirects |-> limit, retry_count |-> retries, retry_delay |-> 1,
     headers |-> headers, user_agent |-> None,
     auth_username |-> Some(<<"u">>), auth_password |-> password,
     browser_cookies |-> cookies]

DefaultMethod == [method |-> "POST", data |-> Body, explicit |-> FALSE, keep |-> 0]
DefaultHeaders == {UserAuthorization, UserCookie, UserTrace}

HttpConfigs ==
    {HttpConfig(UrlA, m, trusted, TRUE, limit, retries, DefaultHeaders,
                Some(<<"p">>), None) :
        m \in MethodChoices, trusted \in BOOLEAN,
        limit \in {None} \cup {Some(n) : n \in 0..MaxRedirectLimit},
        retries \in 0..MaxRetries}
    \cup {HttpConfig(UrlA, DefaultMethod, trusted, TRUE, Some(1), 1, DefaultHeaders,
                     Some(<<"p">>), Some("chrome")) : trusted \in BOOLEAN}
    \cup {HttpConfig(UrlA, DefaultMethod, FALSE, FALSE, Some(1), 1, DefaultHeaders,
                     Some(<<"p">>), None),
          HttpConfig(NotAUrl, DefaultMethod, FALSE, TRUE, Some(1), 1, DefaultHeaders,
                     Some(<<"p">>), None),
          HttpConfig(UrlA, DefaultMethod, FALSE, TRUE, Some(1), 0, DefaultHeaders,
                     None, None),
          HttpConfig(UrlA, DefaultMethod, FALSE, TRUE, Some(1), 0, {},
                     Some(<<"p">>), Some("chrome")),
          HttpConfig(UrlA, DefaultMethod, TRUE, TRUE, Some(1), 0,
                     {UserCookie, UserCookieUpper}, Some(<<"p">>), Some("chrome")),
          [HttpConfig(UrlAPort, DefaultMethod, FALSE, TRUE, Some(1), 0,
                      DefaultHeaders, Some(<<"p">>), None)
              EXCEPT !.user_agent = Some(<<"r">>)],
          HttpConfig(UrlA, DefaultMethod, FALSE, TRUE, Some(1), 1,
                     {UserTrace, UserBadName}, Some(<<"p">>), None),
          HttpConfig(UrlA, DefaultMethod, FALSE, TRUE, Some(1), 1,
                     {UserTrace, UserBadValue}, Some(<<"p">>), None),
          HttpConfig(UrlMailto, DefaultMethod, FALSE, TRUE, Some(1), 1,
                     DefaultHeaders, Some(<<"p">>), None),
          [HttpConfig(UrlA, DefaultMethod, FALSE, TRUE, Some(1), 1,
                      DefaultHeaders, Some(<<"p">>), None)
              EXCEPT !.retry_delay = 0]}

HttpCookie(name, secure, expires) ==
    [name |-> name, value |-> <<"v">>, domain |-> <<"a">>, path |-> <<"/">>,
     secure |-> secure, http_only |-> FALSE, expires |-> expires]

HttpStore ==
    store_of(<<HttpCookie(<<"s">>, FALSE, Some(I64(100))),
               HttpCookie(<<"t">>, TRUE, None)>>)

(* What extract_cookies returns to the client. *)
ExtractionOutcomes == {Ok(HttpStore), Err("BrowserCookie"), Err("FileNotFound")}

HttpNows == {I64(99), I64(100)}

Locations ==
    {[text |-> TRUE, kind |-> "absolute", url |-> u] :
        u \in {UrlASecure, UrlAPort, UrlB, UrlMailto}}
    \cup {[text |-> TRUE, kind |-> "path", path |-> <<"/", "a">>],
          [text |-> TRUE, kind |-> "unjoinable"],
          [text |-> FALSE]}

HttpResponse(status, location, retry_after) ==
    [status |-> status, location |-> location, retry_after |-> retry_after]

Responses ==
    {HttpResponse(s, Some(l), None) :
        s \in {301, 302, 303, 307},
        l \in {[text |-> TRUE, kind |-> "absolute", url |-> UrlB],
               [text |-> TRUE, kind |-> "path", path |-> <<"/", "a">>]}}
    \cup {HttpResponse(302, Some(l), None) : l \in Locations}
    \cup {HttpResponse(200, None, None), HttpResponse(302, None, None),
          HttpResponse(200, Some([text |-> TRUE, kind |-> "absolute", url |-> UrlB]),
                       None),
          HttpResponse(503, None, None), HttpResponse(503, None, Some(2))}

TransportErrors == {"timeout", "connect", "request"}

-----------------------------------------------------------------------------
(* HttpClient::execute_with_history as a state machine. pc is "start"       *)
(* before an attempt, "send" at the top of the loop of                      *)
(* execute_with_history_once, "await" while client.execute is pending,      *)
(* "attempt_done" when execute_with_history_once has returned, "sleep"      *)
(* while tokio::time::sleep is pending before a retry and "done" when       *)
(* execute_with_history has returned.                                       *)

InitHttp ==
    /\ op = "none"
    /\ input = <<>>
    /\ output = <<>>
    /\ config \in HttpConfigs
    /\ pc = "start"
    /\ retries_left = config.retry_count
    /\ attempts = 0
    /\ current_url = <<>>
    /\ current_method = <<>>
    /\ current_data = <<>>
    /\ redirects_followed = 0
    /\ cookie_context = <<>>
    /\ extractions = 0
    /\ requests_sent = 0
    /\ request = <<>>
    /\ response = <<>>
    /\ result = <<>>

(* The start of an attempt that goes on without cookies when the extraction *)
(* fails, which the source does not do.                                     *)
BeginAttempt_ignores_failed_extraction ==
    /\ pc = "start"
    /\ attempts' = attempts + 1
    /\ requests_sent' = 0
    /\ redirects_followed' = 0
    /\ request' = <<>>
    /\ response' = <<>>
    /\ \E extracted \in IF Url_parse(config.url).ok /\ config.browser_cookies.some
                        THEN ExtractionOutcomes ELSE {Ok(<<>>)} :
         /\ extractions' = IF Url_parse(config.url).ok /\ config.browser_cookies.some
                           THEN 1 ELSE 0
         /\ IF ~Url_parse(config.url).ok
            THEN /\ result' = Url_parse(config.url)
                 /\ pc' = "attempt_done"
                 /\ UNCHANGED <<current_url, current_method, current_data,
                                cookie_context>>
            ELSE /\ current_url' = Url_parse(config.url).val
                 /\ current_method' = config.method
                 /\ current_data' = config.data
                 /\ IF ~extracted.ok
                    THEN /\ result' = <<>>
                         /\ pc' = "send"
                         /\ cookie_context' = None
                    ELSE /\ result' = <<>>
                         /\ pc' = "send"
                         /\ cookie_context' = IF config.browser_cookies.some
                                              THEN Some(extracted.val) ELSE None
    /\ UNCHANGED <<op, input, output, config, retries_left>>

(* execute_with_history_once up to its loop: the URL is parsed and, with    *)
(* browser cookies configured, the cookies are extracted.                   *)
BeginAttempt ==
    /\ pc = "start"
    /\ attempts' = attempts + 1
    /\ requests_sent' = 0
    /\ redirects_followed' = 0
    /\ request' = <<>>
    /\ response' = <<>>
    /\ \E extracted \in IF Url_parse(config.url).ok /\ config.browser_cookies.some
                        THEN ExtractionOutcomes ELSE {Ok(<<>>)} :
         /\ extractions' = IF Url_parse(config.url).ok /\ config.browser_cookies.some
                           THEN 1 ELSE 0
         /\ IF ~Url_parse(config.url).ok
            THEN /\ result' = Url_parse(config.url)
                 /\ pc' = "attempt_done"
                 /\ UNCHANGED <<current_url, current_method, current_data,
                                cookie_context>>
            ELSE /\ current_url' = Url_parse(config.url).val
                 /\ current_method' = config.method
                 /\ current_data' = config.data
                 /\ IF ~extracted.ok
                    THEN /\ result' = extracted
                         /\ pc' = "attempt_done"
                         /\ cookie_context' = <<>>
                    ELSE /\ result' = <<>>
                         /\ pc' = "send"
                         /\ cookie_context' = IF config.browser_cookies.some
                                              THEN Some(extracted.val) ELSE None
    /\ UNCHANGED <<op, input, output, config, retries_left>>

(* One turn of the loop up to client.execute: the request is built and      *)
(* handed to the network, or the attempt ends with the error of the build   *)
(* and nothing is sent.                                                     *)
SendRequest ==
    /\ pc = "send"
    /\ \E now \in HttpNows, existing \in find_cookie_header(config.headers) :
         \E order \in IF cookie_context.some THEN Orders(cookie_context.v)
                      ELSE {<<>>} :
            LET built == request_build(build_request(
                    config, redirect_origin_key(Url_parse(config.url).val),
                    current_url, current_method, current_data,
                    IF cookie_context.some
                    THEN cookies_for_url(cookie_context.v, order, current_url, now)
                    ELSE <<>>,
                    existing))
            IN IF built.ok
               THEN /\ request' = built.val
                    /\ requests_sent' = requests_sent + 1
                    /\ pc' = "await"
                    /\ UNCHANGED result
               ELSE /\ result' = built
                    /\ pc' = "attempt_done"
                    /\ UNCHANGED <<request, requests_sent>>
    /\ UNCHANGED <<op, input, output, config, retries_left, attempts, current_url,
                   current_method, current_data, redirects_followed,
                   cookie_context, extractions, response>>

(* client.execute fails: the attempt ends with the Http error.              *)
TransportError ==
    /\ pc = "await"
    /\ \E kind \in TransportErrors :
         /\ response' = HttpErr(kind)
         /\ result' = HttpErr(kind)
    /\ pc' = "attempt_done"
    /\ UNCHANGED <<op, input, output, config, retries_left, attempts, current_url,
                   current_method, current_data, redirects_followed,
                   cookie_context, extractions, requests_sent,
                   request>>

(* client.execute returns a response: the rest of the turn of the loop.     *)
ReceiveResponse ==
    /\ pc = "await"
    /\ \E resp \in Responses :
         LET outcome == handle_response(config, current_url, current_method,
                                        current_data, redirects_followed, resp)
         IN /\ (outcome.next = "continue" /\ ~config.max_redirects.some)
                  => redirects_followed < MaxHops
            /\ response' = resp
            /\ redirects_followed' = outcome.followed
            /\ IF outcome.next = "return"
               THEN /\ result' = outcome.result
                    /\ pc' = "attempt_done"
                    /\ UNCHANGED <<current_url, current_method, current_data>>
               ELSE /\ current_url' = outcome.url
                    /\ current_method' = outcome.to.method
                    /\ current_data' = outcome.to.data
                    /\ pc' = "send"
                    /\ UNCHANGED result
    /\ UNCHANGED <<op, input, output, config, retries_left, attempts,
                   cookie_context, extractions, requests_sent,
                   request>>

(* A match that grants one attempt more than retry_count allows, which      *)
(* execute_with_history does not.                                           *)
retry_wanted_one_more ==
    IF result.ok
    THEN /\ retries_left > -1
         /\ retry_delay_from_response(result.val.status, result.val.retry_after,
                                      config.retry_delay).some
    ELSE retries_left > -1 /\ should_retry_error(result)

(* The match of execute_with_history on the result of the attempt. When    *)
(* the loop goes round, the locals of the attempt are gone.                 *)
retry_wanted ==
    IF result.ok
    THEN /\ retries_left /= 0
         /\ retry_delay_from_response(result.val.status, result.val.retry_after,
                                      config.retry_delay).some
    ELSE ~(retries_left = 0 \/ ~should_retry_error(result))

(* The delay before the next attempt: after a response the one that        *)
(* retry_delay_from_response gives, after an error the configured one.      *)
retry_sleep ==
    IF result.ok
    THEN retry_delay_from_response(result.val.status, result.val.retry_after,
                                   config.retry_delay).v
    ELSE config.retry_delay

(* A retry is decided and its delay is above zero: the call is suspended in *)
(* tokio::time::sleep, with the attempt over and the retry not yet counted. *)
Sleep ==
    /\ pc = "attempt_done"
    /\ retry_wanted
    /\ retry_sleep > 0
    /\ pc' = "sleep"
    /\ UNCHANGED <<op, input, output, config, retries_left, attempts, current_url,
                   current_method, current_data, redirects_followed,
                   cookie_context, extractions, requests_sent,
                   request, response, result>>

(* retries_left -= 1 and the loop goes round: after the sleep, or at once   *)
(* when the delay is zero.                                                  *)
Retry ==
    /\ \/ pc = "sleep"
       \/ pc = "attempt_done" /\ retry_wanted /\ retry_sleep = 0
    /\ retries_left' = retries_left - 1
    /\ pc' = "start"
    /\ current_url' = <<>>
    /\ current_method' = <<>>
    /\ current_data' = <<>>
    /\ cookie_context' = <<>>
    /\ request' = <<>>
    /\ response' = <<>>
    /\ result' = <<>>
    /\ UNCHANGED <<op, input, output, config, attempts, redirects_followed,
                   extractions, requests_sent>>

Return ==
    /\ pc = "attempt_done"
    /\ ~retry_wanted
    /\ pc' = "done"
    /\ UNCHANGED <<op, input, output, config, retries_left, attempts, current_url,
                   current_method, current_data, redirects_followed,
                   cookie_context, extractions, requests_sent,
                   request, response, result>>

NextHttp ==
    \/ BeginAttempt
    \/ SendRequest
    \/ TransportError
    \/ ReceiveResponse
    \/ Sleep
    \/ Retry
    \/ Return

SpecHttp == InitHttp /\ [][NextHttp]_vars

(* The call goes on as long as it has a step to take: the servers answer    *)
(* each request, with a response or an error, and the client takes up each  *)
(* answer.                                                                  *)
SpecHttpFair == SpecHttp /\ WF_vars(NextHttp)

-----------------------------------------------------------------------------
(* The command line and the configuration strings: the -u option            *)
(* (src/cli/mod.rs), Auth (src/http/auth.rs) and StringUtils::parse_header  *)
(* (src/utils.rs).                                                          *)

MaxUserLen == 4

(* str::splitn(2, c): the text before the first c and the text after it, or *)
(* the whole text when it holds no c.                                       *)
RECURSIVE splitn2(_, _, _)
splitn2(rest, c, before) ==
    IF rest = <<>> THEN <<before>>
    ELSE IF Head(rest) = c THEN <<before, Tail(rest)>>
    ELSE splitn2(Tail(rest), c, Append(before, Head(rest)))

(* str::replace(from, to) for a pattern of one character.                   *)
RECURSIVE replace(_, _, _)
replace(s, from, to) ==
    IF s = <<>> THEN <<>>
    ELSE (IF Head(s) = from THEN to ELSE <<Head(s)>>) \o replace(Tail(s), from, to)

(* StringUtils::parse_header *)
parse_header(text) ==
    Let(splitn2(text, ":", <<>>), LAMBDA parts :
        IF Len(parts) = 2 THEN Ok(<<trim(parts[1]), trim(parts[2])>>)
        ELSE Err("Config"))

(* Auth::parse_user_pass *)
parse_user_pass(text) ==
    Let(splitn2(text, ":", <<>>), LAMBDA parts :
        IF Len(parts) = 2 THEN Ok(<<parts[1], parts[2]>>)
        ELSE Ok(<<parts[1], <<>>>>))

Base64Alphabet ==
    UpperLetters \o LowerLetters
    \o <<"0", "1", "2", "3", "4", "5", "6", "7", "8", "9", "+", "/">>

(* base64::engine::general_purpose::STANDARD.encode: three bytes give four  *)
(* characters, a last group of one or two bytes is padded with '='.         *)
RECURSIVE base64_encode(_)
base64_encode(b) ==
    IF b = <<>> THEN <<>>
    ELSE IF Len(b) = 1
    THEN <<Base64Alphabet[(b[1] \div 4) + 1], Base64Alphabet[(b[1] % 4) * 16 + 1],
           "=", "=">>
    ELSE IF Len(b) = 2
    THEN <<Base64Alphabet[(b[1] \div 4) + 1],
           Base64Alphabet[(b[1] % 4) * 16 + (b[2] \div 16) + 1],
           Base64Alphabet[(b[2] % 16) * 4 + 1], "=">>
    ELSE <<Base64Alphabet[(b[1] \div 4) + 1],
           Base64Alphabet[(b[1] % 4) * 16 + (b[2] \div 16) + 1],
           Base64Alphabet[(b[2] % 16) * 4 + (b[3] \div 64) + 1],
           Base64Alphabet[(b[3] % 64) + 1]>>
         \o base64_encode(SubSeq(b, 4, Len(b)))

TextBasic == <<"B", "a", "s", "i", "c", " ">>

(* Auth::basic_auth, and RequestBuilder::basic_auth of the request.         *)
basic_auth(username, password) ==
    TextBasic \o base64_encode(as_bytes(username \o <<":">> \o password))

(* build_config_from_args for -u: the credentials of the configuration and  *)
(* the Authorization header the client sends with them.                     *)
build_config_user(user_str) ==
    AndThen(parse_header(replace(user_str, ":", <<":", " ">>)), LAMBDA pair :
        Ok([auth_username |-> pair[1], auth_password |-> pair[2],
            authorization |-> basic_auth(pair[1], pair[2])]))

(* BrowserCookieConfig, src/config.rs.                                      *)

(* str::split(pattern): the parts between the matches of the pattern, taken *)
(* from the left without overlap.                                           *)
RECURSIVE split(_, _, _, _)
split(rest, pattern, part, parts) ==
    IF rest = <<>> THEN Append(parts, part)
    ELSE IF starts_with(rest, pattern)
    THEN split(SubSeq(rest, Len(pattern) + 1, Len(rest)), pattern, <<>>,
               Append(parts, part))
    ELSE split(Tail(rest), pattern, Append(part, Head(rest)), parts)

(* Iterator::next of a split after its first part, mapped to a String.      *)
second_part(parts) == IF Len(parts) >= 2 THEN Some(parts[2]) ELSE None

(* impl FromStr for Browser *)
Browser_from_str(text) ==
    Let(to_lowercase(text), LAMBDA v :
        IF v \in {<<"c", "h", "r", "o", "m", "e">>, <<"c", "h", "r", "o", "m", "i", "u", "m">>}
        THEN Ok("Chrome")
        ELSE IF v = <<"f", "i", "r", "e", "f", "o", "x">> THEN Ok("Firefox")
        ELSE IF v = <<"s", "a", "f", "a", "r", "i">> THEN Ok("Safari")
        ELSE IF v = <<"e", "d", "g", "e">> THEN Ok("Edge")
        ELSE IF v = <<"b", "r", "a", "v", "e">> THEN Ok("Brave")
        ELSE IF v = <<"o", "p", "e", "r", "a">> THEN Ok("Opera")
        ELSE IF v = <<"v", "i", "v", "a", "l", "d", "i">> THEN Ok("Vivaldi")
        ELSE IF v = <<"w", "h", "a", "l", "e">> THEN Ok("Whale")
        ELSE Err("unit"))

(* BrowserCookieConfig::parse *)
BrowserCookieConfig_parse(text) ==
    Let(split(text, <<":", ":">>, <<>>, <<>>), LAMBDA parts :
    Let(split(parts[1], <<":">>, <<>>, <<>>), LAMBDA browser_profile_parts :
    Let(split(browser_profile_parts[1], <<"+">>, <<>>, <<>>),
        LAMBDA browser_keyring_split :
        IF ~Browser_from_str(browser_keyring_split[1]).ok THEN Err("Config")
        ELSE Ok([browser |-> Browser_from_str(browser_keyring_split[1]).val,
                 profile |-> second_part(browser_profile_parts),
                 container |-> second_part(parts),
                 keyring |-> second_part(browser_keyring_split)]))))

MaxKeyringLen == 1
MaxPartLen == 2

PartChars == {"a", ":", "+"}

(* Browser names of the command line with the browser each one names, and   *)
(* names of no supported browser.                                           *)
BrowserNames ==
    {[name |-> <<"c", "h", "r", "o", "m", "e">>, browser |-> Some("Chrome")],
     [name |-> <<"c", "h", "r", "o", "m", "i", "u", "m">>, browser |-> Some("Chrome")],
     [name |-> <<"F", "i", "r", "e", "f", "o", "x">>, browser |-> Some("Firefox")],
     [name |-> <<"W", "H", "A", "L", "E">>, browser |-> Some("Whale")],
     [name |-> <<"l", "y", "n", "x">>, browser |-> None],
     [name |-> <<>>, browser |-> None]}

OptionalTexts(n) == {None} \cup {Some(t) : t \in SeqsUpTo(PartChars, n)}

(* BROWSER[+KEYRING][:PROFILE][::CONTAINER] *)
BrowserCookieString(name, keyring, profile, container) ==
    name
    \o (IF keyring.some THEN <<"+">> \o keyring.v ELSE <<>>)
    \o (IF profile.some THEN <<":">> \o profile.v ELSE <<>>)
    \o (IF container.some THEN <<":", ":">> \o container.v ELSE <<>>)

UserChars == {"u", "p", ":", " "}

InitCli ==
    /\ op = "none"
    /\ input = <<>>
    /\ output = <<>>
    /\ HttpIdle

CallBuildConfigUser ==
    /\ op = "none"
    /\ \E user_str \in SeqsUpTo(UserChars, MaxUserLen) :
        /\ op' = "build_config_user"
        /\ input' = [user_str |-> user_str]
        /\ output' = build_config_user(user_str)
    /\ UNCHANGED httpVars

CallBrowserCookieConfigParse ==
    /\ op = "none"
    /\ \E b \in BrowserNames, keyring \in OptionalTexts(MaxKeyringLen),
          profile \in OptionalTexts(MaxPartLen),
          container \in OptionalTexts(MaxPartLen) :
        /\ op' = "BrowserCookieConfig_parse"
        /\ input' = [b |-> b, keyring |-> keyring, profile |-> profile,
                     container |-> container,
                     text |-> BrowserCookieString(b.name, keyring, profile, container)]
        /\ output' = BrowserCookieConfig_parse(
                         BrowserCookieString(b.name, keyring, profile, container))
    /\ UNCHANGED httpVars

NextCli ==
    \/ CallBuildConfigUser
    \/ CallBrowserCookieConfigParse

SpecCli == InitCli /\ [][NextCli]_vars

-----------------------------------------------------------------------------
(* Claims about the matching engine, checked under SpecMatch.               *)

(* The cookies of a store, as the set of <<bucket key, index>> positions.   *)
StorePositions(store) ==
    {<<k, i>> : k \in DOMAIN store, i \in 1..MaxCookies + 1} \cap
    UNION {{<<k, i>> : i \in 1..Len(store[k])} : k \in DOMAIN store}

Elements(seq) == {seq[i] : i \in 1..Len(seq)}

(* How often cookie c occurs in a sequence or in a store.                   *)
Occurrences(seq, c) == Cardinality({i \in 1..Len(seq) : seq[i] = c})

StoreOccurrences(store, c) ==
    Cardinality({p \in StorePositions(store) : store[p[1]][p[2]] = c})

(* None of the four rejections applies to cookie c for this URL and time.   *)
NotRejected(c, url, now) ==
    /\ ~(c.secure /\ url.scheme /= "https")
    /\ ~is_expired(c.expires, now)
    /\ domain_matches(to_lowercase(url.host.v), c.domain)
    /\ path_matches(url.path, c.path)

(* C1: for a URL with a host, cookies_for_url returns a cookie of the store *)
(* if and only if none of the four rejections (secure on a non-https URL,   *)
(* expired, domain mismatch, path mismatch) applies; each such cookie is    *)
(* returned as often as the store holds it, every returned cookie is a      *)
(* cookie of the store, and no secure cookie is returned for an http URL.   *)
C1_CookiesForUrlFilters ==
    (op = "cookies_for_url" /\ input.url.host.some) =>
        LET store == input.store
            stored == {store[p[1]][p[2]] : p \in StorePositions(store)}
        IN /\ Elements(output) \subseteq stored
           /\ \A c \in stored :
                IF NotRejected(c, input.url, input.now)
                THEN Occurrences(output, c) = StoreOccurrences(store, c)
                ELSE c \notin Elements(output)
           /\ input.url.scheme = "http" =>
                \A c \in Elements(output) : ~c.secure

C1_Witness ==
    /\ op = "cookies_for_url"
    /\ input.url.scheme = "http"
    /\ input.url.host.some
    /\ Len(output) = 1
    /\ \E p \in StorePositions(input.store) :
         LET c == input.store[p[1]][p[2]] IN
         /\ c.secure
         /\ ~is_expired(c.expires, input.now)
         /\ domain_matches(to_lowercase(input.url.host.v), c.domain)
         /\ path_matches(input.url.path, c.path)

(* The cookie domain as domain_matches reads it: trimmed and lower-cased.   *)
NormalDomain == to_lowercase(trim(input.cookie_domain))

(* C2: for a lower-case host h and the trimmed, lower-cased cookie domain   *)
(* d, domain_matches(h, d) holds iff either d starts with '.' and, with    *)
(* that dot stripped, d equals h or h ends with "." + d, or d has no        *)
(* leading dot and equals h. domain_matches strips every leading dot and    *)
(* refuses an empty remainder: it matches the host "a" to the domain        *)
(* "..a", and does not match the host "a." to the domain ".".               *)
C2_Original ==
    op = "domain_matches" =>
        LET h == input.host
            d == NormalDomain
        IN output <=>
             \/ /\ starts_with(d, <<".">>)
                /\ \/ Tail(d) = h
                   \/ ends_with(h, <<".">> \o Tail(d))
             \/ /\ ~starts_with(d, <<".">>)
                /\ d = h

(* C3 as stated: p == c, or p starts with c and (c ends with '/' or the     *)
(* character of p right after c is '/'). The code reads an empty cookie     *)
(* path as "/", so for p = c = "" the code answers false.                   *)
C3_Original ==
    op = "path_matches" =>
        LET p == input.request_path
            c == input.cookie_path
        IN output <=>
             \/ p = c
             \/ /\ starts_with(p, c)
                /\ \/ (c /= <<>> /\ c[Len(c)] = "/")
                   \/ (Len(p) > Len(c) /\ p[Len(c) + 1] = "/")

(* C3, amended: with an empty cookie path read as "/", path_matches(p, c)   *)
(* holds iff p == c, or p starts with c and (c ends with '/' or the         *)
(* character of p right after the prefix c is '/'). A cookie path "/a"      *)
(* matches "/a" and "/a/..." and never "/aa".                                *)
C3_PathMatches ==
    op = "path_matches" =>
        LET p == input.request_path
            c == IF input.cookie_path = <<>> THEN <<"/">> ELSE input.cookie_path
        IN output <=>
             \/ p = c
             \/ /\ starts_with(p, c)
                /\ \/ c[Len(c)] = "/"
                   \/ (Len(p) > Len(c) /\ p[Len(c) + 1] = "/")

C3_Witness ==
    /\ op = "path_matches"
    /\ input.cookie_path = <<>>
    /\ input.request_path = <<"/", "a">>
    /\ output = TRUE

(* C4: is_expired(None, now) is false; is_expired(Some(x), now) is false    *)
(* for every x > 100_000_000_000; for every other x it equals x <= now.     *)
C4_IsExpired ==
    op = "is_expired" =>
        IF ~input.expires.some THEN output = FALSE
        ELSE IF BigLess(ExpirySentinel, input.expires.v) THEN output = FALSE
        ELSE output = BigLeq(input.expires.v, input.now)

C4_Witness ==
    /\ op = "is_expired"
    /\ input.expires.some
    /\ BigLess(ExpirySentinel, input.expires.v)
    /\ BigLeq(input.expires.v, input.now)
    /\ output = FALSE

-----------------------------------------------------------------------------
(* Claims about the extractors, checked under SpecExtract.                  *)

StoredCookies(store) == UNION {Elements(store[k]) : k \in DOMAIN store}

StoredCount(store) ==
    Cardinality(UNION {{<<k, i>> : i \in 1..Len(store[k])} : k \in DOMAIN store})

(* The conversion as C5 words it: None for 0, otherwise                     *)
(* u = expires_utc / 1_000_000 - 11_644_473_600, None when u <= 0.          *)
C5_ClaimedExpires(expires_utc) ==
    IF expires_utc = BigZero THEN None
    ELSE Let(BigSub(BigDivMillion(expires_utc), BigOf(FALSE, <<11644, 473600>>)),
             LAMBDA u : IF u.neg \/ u = BigZero THEN None ELSE Some(u))

(* Instants at which the cookies of a store are matched: 2023-11-14 and     *)
(* 2024-01-17T21:20:00Z, the expiry of ExpiresUtc2024.                      *)
C5_Nows == {BigOf(FALSE, <<1700, 0>>), BigOf(FALSE, <<1705, 526400>>)}

(* C5: on macOS, Linux and Windows the expiry of every stored Chromium      *)
(* cookie is the conversion of its row's expires_utc (None for 0 and for a  *)
(* result that is not positive, otherwise the Unix seconds), so that a      *)
(* cookie whose expiry instant is at or before now counts as expired. The   *)
(* macOS extractor stores expires_utc unconverted, which refutes this.      *)
C5_Original ==
    (op = "extract_chromium_cookies" /\ output.ok) =>
        \A c \in StoredCookies(output.val) :
            \E i \in 1..Len(input.rows) :
                LET row == input.rows[i]
                    claimed == C5_ClaimedExpires(row.expires_utc)
                IN /\ row.host_key = c.domain
                   /\ c.expires = claimed
                   /\ \A now \in C5_Nows :
                        (claimed.some /\ BigLeq(claimed.v, now))
                            => is_expired(c.expires, now)

(* The steps before the rows or records are read have all succeeded.        *)
OpenedOk ==
    CASE op = "extract_chromium_cookies" -> chromium_open(input.env).ok
      [] op = "firefox_extract_cookies" ->
            input.env.os /= "linux" /\ firefox_open(input.env).ok
      [] op = "safari_extract_cookies" -> safari_read(input.env).ok
      [] OTHER -> FALSE

(* The value the Chromium extractor finds for a row: the plaintext column   *)
(* when it is not empty, otherwise the decryption of a non-empty            *)
(* encrypted_value, otherwise nothing.                                      *)
RowValue(os, row, decryptor) ==
    IF row.value /= <<>> THEN Some(row.value)
    ELSE IF row.encrypted_value = <<>> \/ row.enc_type = "null" THEN None
    ELSE IF os = "linux" THEN linux_decrypt(decryptor, row.encrypted_value)
    ELSE IF os = "macos" THEN macos_decrypt(decryptor, row.encrypted_value)
    ELSE windows_decrypt(decryptor, row.encrypted_value)

(* The row is fetched and each column holds a storage class the extractor   *)
(* of the system reads.                                                     *)
RowReadable(os, row) ==
    /\ row.readable
    /\ IF os = "macos" THEN row.enc_type = "blob"
       ELSE row.enc_type \in {"blob", "text", "null"}

(* Well-formed Safari files no record of which gives a cookie: no page, a   *)
(* page without records, a record offset past the page, a record with an    *)
(* empty domain.                                                            *)
C6_SafariFilesWithoutCookie ==
    {SafariFileBytes(<<>>),
     SafariFileBytes(<<SafariPageBytes(<<>>)>>),
     SafariStrayOffsetFile,
     SafariFileBytes(<<SafariPageBytes(
         <<SafariRecordBytes(<<>>, <<97>>, <<47>>, <<98>>, 0, F64Zero)>>)>>)}

ExtractorCalled ==
    op \in {"extract_chromium_cookies", "firefox_extract_cookies",
            "safari_extract_cookies"}

(* C6: an extractor (Chromium on macOS, Linux or Windows, Firefox, Safari)  *)
(* returns Ok(store) only with at least one cookie in the store and no      *)
(* empty bucket; an extraction whose steps all succeed and that reads no    *)
(* row or record, or drops every row, returns a BrowserCookie error: for    *)
(* Chromium when every row is read and none has a value, for Firefox when   *)
(* the query of the container mode returns no row of the table, for Safari  *)
(* when the parse of the file succeeds without a cookie.                    *)
C6_NoEmptySuccess ==
    /\ (ExtractorCalled /\ output.ok) =>
          /\ output.val /= EmptyStore
          /\ StoredCookies(output.val) /= {}
          /\ \A k \in DOMAIN output.val : output.val[k] /= <<>>
    /\ (op = "extract_chromium_cookies" /\ OpenedOk
        /\ \A i \in 1..Len(input.rows) :
              /\ RowReadable(input.env.os, input.rows[i])
              /\ ~RowValue(input.env.os, input.rows[i],
                           chromium_open(input.env).val).some)
          => output = Err("BrowserCookie")
    /\ (op = "firefox_extract_cookies" /\ OpenedOk
        /\ firefox_select(firefox_open(input.env).val, input.rows) = <<>>)
          => output = Err("BrowserCookie")
    /\ (op = "safari_extract_cookies" /\ OpenedOk
        /\ \/ input.data \in C6_SafariFilesWithoutCookie
           \/ parse_safari_cookies(input.data, input.env.build) = Ok(EmptyStore))
          => output = Err("BrowserCookie")

(* The table holds rows, the query of the container that Firefox was asked  *)
(* for returns none of them, and the extraction fails with BrowserCookie.   *)
C6_Witness ==
    /\ op = "firefox_extract_cookies"
    /\ OpenedOk
    /\ firefox_open(input.env).val.mode = "Specific"
    /\ Len(input.rows) = 2
    /\ \A i \in 1..2 : input.rows[i].readable
    /\ firefox_select(firefox_open(input.env).val, input.rows) = <<>>
    /\ output = Err("BrowserCookie")

(* C7: once the steps before the rows have succeeded, no failure confined   *)
(* to a single row makes the extraction fail while another row yields a     *)
(* cookie. row_to_cookie returns the error of a column it cannot read (a    *)
(* text column that is not TEXT or holds bytes that are not UTF-8, an       *)
(* encrypted_value of a storage class it does not read) and the row loop    *)
(* returns it, so the extraction fails although another row yields one.     *)
C7_Original ==
    (op = "extract_chromium_cookies" /\ OpenedOk
     /\ \E i \in 1..Len(input.rows) :
           /\ RowReadable(input.env.os, input.rows[i])
           /\ RowValue(input.env.os, input.rows[i],
                       chromium_open(input.env).val).some)
        => output.ok

-----------------------------------------------------------------------------
(* Claims about the HTTP client, checked under SpecHttp.                    *)

IsResponse(r) == "status" \in DOMAIN r

RedirectWithLocation(r) ==
    IsResponse(r) /\ is_redirection(r.status) /\ r.location.some

(* The request went to the origin of the configured URL: same host, same    *)
(* explicit port, whatever the scheme.                                      *)
RequestOnInitialOrigin ==
    /\ request.url.host = config.url.host
    /\ request.url.port = config.url.port

SensitiveName(name) ==
    to_lowercase(name) \in
        {<<"a", "u", "t", "h", "o", "r", "i", "z", "a", "t", "i", "o", "n">>,
         <<"c", "o", "o", "k", "i", "e">>}

(* C8: every request of a redirect chain carries the user's Authorization   *)
(* and Cookie headers and the basic-auth credentials exactly when it goes   *)
(* to the origin (host and explicit port) of the initial URL or             *)
(* location_trusted is set; every other configured header is on every       *)
(* request; without location_trusted a request to another host or port      *)
(* carries none of the credentials, also not inside the Cookie header built *)
(* from the browser cookies.                                                *)
C8_CredentialsStayOnOrigin ==
    request /= <<>> =>
        LET allowed == RequestOnInitialOrigin \/ config.location_trusted
            configured == config.auth_username.some /\ config.auth_password.some
        IN /\ request.headers \subseteq config.headers
           /\ \A h \in config.headers :
                IF SensitiveName(h[1]) THEN h \in request.headers <=> allowed
                ELSE h \in request.headers
           /\ request.basic_auth.some <=> (configured /\ allowed)
           /\ request.basic_auth.some =>
                request.basic_auth.v = <<config.auth_username.v, config.auth_password.v>>
           /\ ~allowed =>
                /\ \A h \in request.headers : ~SensitiveName(h[1])
                /\ ~request.basic_auth.some
                /\ request.cookie.some =>
                     \A h \in config.headers :
                        SensitiveName(h[1]) => ~starts_with(request.cookie.v, h[2])

(* The second request of a chain goes to another host without               *)
(* location_trusted and carries the plain header only.                      *)
C8_Witness ==
    /\ pc = "await"
    /\ requests_sent = 2
    /\ ~config.location_trusted
    /\ config.headers = DefaultHeaders
    /\ config.auth_password.some
    /\ request.url.host = Some(<<"b">>)
    /\ request.headers = {UserTrace}
    /\ ~request.basic_auth.some

(* C9 as stated: with follow_redirects and max_redirects = Some(n), at most *)
(* n redirects are followed and at most n + 1 requests are sent, a response *)
(* that is no redirect with a Location header ends the attempt as its       *)
(* result, and the (n+1)-th redirect response with a Location header ends   *)
(* it with RedirectLimitExceeded(n). A Location header that is not readable *)
(* text gives InvalidUrl before the limit is looked at, so this fails.      *)
C9_Original ==
    (config.follow_redirects /\ config.max_redirects.some) =>
        LET n == config.max_redirects.v IN
        /\ redirects_followed <= n
        /\ requests_sent <= n + 1
        /\ (pc = "attempt_done" /\ IsResponse(response)) =>
              IF ~RedirectWithLocation(response) THEN result = Ok(response)
              ELSE requests_sent = n + 1 =>
                      result = RedirectLimitExceeded(n)

(* C9, amended: as above, where the (n+1)-th redirect response carries a    *)
(* Location header that is readable text; a redirect response whose         *)
(* Location header is not readable text ends the attempt with InvalidUrl,   *)
(* whatever the number of redirects followed; an earlier redirect whose     *)
(* Location resolves to no URL ends it with InvalidUrl, and one whose       *)
(* target is a URL without a host with the Http error of the request        *)
(* builder, with no further request sent.                                   *)
C9_RedirectLimit ==
    (config.follow_redirects /\ config.max_redirects.some) =>
        LET n == config.max_redirects.v IN
        /\ redirects_followed <= n
        /\ requests_sent <= n + 1
        /\ (pc = "attempt_done" /\ IsResponse(response)) =>
              IF ~RedirectWithLocation(response) THEN result = Ok(response)
              ELSE IF ~response.location.v.text THEN result = Err("InvalidUrl")
              ELSE IF requests_sent = n + 1 THEN result = RedirectLimitExceeded(n)
              ELSE IF ~Url_join(request.url, response.location.v).ok
              THEN result = Err("InvalidUrl")
              ELSE result = HttpErr("builder")

(* The limit is 2 and the third request is answered by a redirect.          *)
C9_Witness ==
    /\ pc = "attempt_done"
    /\ config.max_redirects = Some(2)
    /\ requests_sent = 3
    /\ redirects_followed = 2
    /\ RedirectWithLocation(response)
    /\ result = RedirectLimitExceeded(2)

(* C10: each request carries the current method and body; after a followed  *)
(* redirect, with the method not given explicitly, a POST answered by 301,  *)
(* 302 or 303 goes on as GET without a body unless post301, post302 or      *)
(* post303 is set for that status, a method other than GET and POST         *)
(* answered by 303 goes on as GET without a body, and method and body are   *)
(* unchanged otherwise; with an explicit method every request has the       *)
(* configured method and body.                                              *)
C10_MethodAcrossRedirect ==
    /\ request /= <<>> =>
         /\ pc = "await" =>
              (request.method = current_method /\ request.body = current_data)
         /\ config.request_method_explicit =>
              (request.method = config.method /\ request.body = config.data)
         /\ requests_sent = 1 =>
              (request.method = config.method /\ request.body = config.data)
    /\ (pc = "send" /\ requests_sent > 0) =>
         LET status == response.status
             keep == \/ status = 301 /\ config.post301
                     \/ status = 302 /\ config.post302
                     \/ status = 303 /\ config.post303
             to_get == current_method = "GET" /\ current_data = None
             same == current_method = request.method /\ current_data = request.body
         IN IF config.request_method_explicit THEN same
            ELSE IF request.method = "POST" /\ status \in {301, 302, 303}
            THEN (IF keep THEN same ELSE to_get)
            ELSE IF request.method \notin {"GET", "POST"} /\ status = 303
            THEN to_get
            ELSE same

(* A POST is answered by 302 with post302 set and goes on as a POST with    *)
(* its body.                                                                *)
C10_Witness ==
    /\ pc = "send"
    /\ requests_sent = 1
    /\ ~config.request_method_explicit
    /\ config.post302
    /\ request.method = "POST"
    /\ response.status = 302
    /\ current_method = "POST"
    /\ current_data = Body

-----------------------------------------------------------------------------
(* Claims about the retries of HttpClient::execute_with_history.            *)

RetryableStatuses == {408, 429, 500, 502, 503, 504, 522, 524}

(* The attempt that has just ended asks for another one.                    *)
AttemptRetryable ==
    \/ result.ok /\ result.val.status \in RetryableStatuses
    \/ ~result.ok /\ result.err = "Http" /\ result.kind \in {"timeout", "connect"}

RetriesUsedUp == attempts = config.retry_count + 1

(* C11: execute_with_history makes at most retry_count + 1 attempts. A new  *)
(* attempt follows an attempt only while retries remain and that attempt    *)
(* ended in a response with a retryable status or in a timeout or connect   *)
(* error; a response with any other status is returned after exactly that   *)
(* attempt; with the retries used up the last response is returned as       *)
(* success, retryable or not, and the last error as the error.              *)
C11_RetryPolicy ==
    [][/\ attempts' <= config.retry_count + 1
       /\ (pc \in {"attempt_done", "sleep"} /\ pc' \in {"sleep", "start"})
             => ~RetriesUsedUp /\ AttemptRetryable
       /\ (pc = "attempt_done" /\ result.ok
           /\ result.val.status \notin RetryableStatuses)
             => pc' = "done" /\ result' = result
       /\ (pc = "attempt_done" /\ RetriesUsedUp)
             => pc' = "done" /\ result' = result
       /\ (pc = "attempt_done" /\ ~RetriesUsedUp /\ AttemptRetryable)
             => pc' \in {"sleep", "start"} /\ attempts' = attempts
       /\ pc = "sleep" => pc' = "start" /\ attempts' = attempts
       /\ pc = "done" => pc' = "done"]_vars

(* The retries are used up and the last response, with a retryable status,  *)
(* is what the call returns.                                                *)
C11_Witness ==
    /\ pc = "done"
    /\ config.retry_count > 0
    /\ RetriesUsedUp
    /\ result.ok
    /\ result.val.status \in RetryableStatuses

-----------------------------------------------------------------------------
(* Claims about the rows of the Firefox extractor.                          *)

FirefoxBucket == <<".", "a">>

(* s = e / 1000 for s > 0, stated by multiplication:                        *)
(* 1000 * s <= e < 1000 * s + 1000.                                         *)
IsThousandth(s, e) ==
    /\ BigLeq(BigOf(FALSE, MagMulSmall(s.mag, 1000)), e)
    /\ BigLess(e, BigAdd(BigOf(FALSE, MagMulSmall(s.mag, 1000)), I64(1000)))

(* What the claim says of the expires of a row with stored expiry e under   *)
(* schema version v.                                                        *)
C12_ExpiresAsClaimed(expires, expiry, v) ==
    IF ~expiry.some THEN expires = None
    ELSE IF v >= 16
    THEN IF BigLess(expiry.v, I64(1000))
         THEN expires = None
         ELSE /\ expires.some
              /\ BigLess(BigZero, expires.v)
              /\ IsThousandth(expires.v, expiry.v)
    ELSE IF BigLeq(expiry.v, BigZero)
         THEN expires = None
         ELSE expires = Some(expiry.v)

(* The rows of the table that the query of the extraction returned.        *)
C12_SelectedRows == firefox_select(firefox_open(input.env).val, input.rows)

(* C12: for every Firefox cookie row with schema version v and stored       *)
(* expiry e, the seconds value s is e / 1000 when v >= 16 and e when        *)
(* v < 16, and Cookie.expires is Some(s) when s > 0 and None when s <= 0 or *)
(* the expiry is absent; v = 16 and e = 1700000000000 give                  *)
(* Some(1700000000).                                                        *)
C12_FirefoxExpiry ==
    (op = "firefox_extract_cookies" /\ output.ok) =>
        LET rows == C12_SelectedRows IN
        /\ Len(output.val[FirefoxBucket]) = Len(rows)
        /\ \A i \in 1..Len(rows) :
              /\ C12_ExpiresAsClaimed(output.val[FirefoxBucket][i].expires,
                                      rows[i].expiry, input.env.meta_version)
              /\ (input.env.meta_version = 16
                  /\ rows[i].expiry = Some(BigOf(FALSE, <<1, 700000, 0>>)))
                    => output.val[FirefoxBucket][i].expires = Some(I64(1700000000))

(* A schema-16 extraction of a row that stores 1700000000000 milliseconds   *)
(* and of a row whose expiry rounds to no seconds at all.                   *)
C12_Witness ==
    /\ op = "firefox_extract_cookies"
    /\ output.ok
    /\ input.env.meta_version = 16
    /\ \E i, j \in 1..Len(C12_SelectedRows) :
          /\ C12_SelectedRows[i].expiry = Some(BigOf(FALSE, <<1, 700000, 0>>))
          /\ output.val[FirefoxBucket][i].expires = Some(I64(1700000000))
          /\ C12_SelectedRows[j].expiry = Some(I64(999))
          /\ output.val[FirefoxBucket][j].expires = None

-----------------------------------------------------------------------------
(* Claims about the store locators.                                         *)

LocatorCalled == op \in {"find_cookie_database", "firefox_locate"}

(* The base directory of the locator that was called and whether its        *)
(* browser has profiles (Firefox has).                                      *)
LocatorBase ==
    IF op = "firefox_locate" THEN PathBuf_join(input.home.v, FirefoxProfilesDir)
    ELSE input.settings.user_data_dir

LocatorSupportsProfiles ==
    op = "firefox_locate" \/ input.settings.supports_profiles

ExpandedProfile == expand_path(input.profile.v, input.home)

(* C13: for the locator of the Chromium and of the Firefox extractor: a     *)
(* path-like profile whose expanded path is an existing file is returned as *)
(* the database directly, whatever its name and without a directory search; *)
(* when the expanded path is not a file it is the directory searched; a     *)
(* bare name is joined onto the base directory if the browser supports      *)
(* profiles, otherwise the base directory is searched.                      *)
C13_Original ==
    (/\ LocatorCalled
     /\ input.profile.some
     /\ input.home.some) =>
        IF is_path_like(input.profile.v)
        THEN ExpandedProfile.ok =>
                IF is_file(input.fs, ExpandedProfile.val)
                THEN /\ output.result = Ok(ExpandedProfile.val)
                     /\ ~output.walked
                ELSE output.root = Some(ExpandedProfile.val)
        ELSE output.root =
                Some(IF LocatorSupportsProfiles
                     THEN PathBuf_join(LocatorBase, PathBuf_from(input.profile.v))
                     ELSE LocatorBase)

-----------------------------------------------------------------------------
(* C14: the Config error of the extractors.                                 *)

C14_SupportedKeyrings ==
    {<<"k", "w", "a", "l", "l", "e", "t">>,
     <<"k", "w", "a", "l", "l", "e", "t", "5">>,
     <<"k", "w", "a", "l", "l", "e", "t", "6">>,
     <<"g", "n", "o", "m", "e">>,
     <<"g", "n", "o", "m", "e", "k", "e", "y", "r", "i", "n", "g">>,
     <<"b", "a", "s", "i", "c">>,
     <<"b", "a", "s", "i", "c", "t", "e", "x", "t">>}

(* The steps before the keyring or containers.json is consulted succeed.    *)
C14_EarlierStepsPass ==
    /\ input.env.dirs = AllDirs
    /\ input.env.located.ok
    /\ input.env.fail \notin {"tempdir", "copy", "open", "schema"}

(* The keyring override of a Chromium extraction on Linux names no keyring. *)
C14_BadKeyring ==
    /\ op = "extract_chromium_cookies"
    /\ input.env.os = "linux"
    /\ input.env.secret.override.some
    /\ to_lowercase(input.env.secret.override.v) \notin C14_SupportedKeyrings

(* A directory the settings of the system are built from is undeterminable. *)
C14_DirectoryMissing ==
    /\ op = "extract_chromium_cookies"
    /\ LET d == input.env.dirs IN
       CASE input.env.os = "linux" -> ~d.config_dir /\ ~d.home_dir
         [] input.env.os = "macos" -> ~d.home_dir
         [] OTHER -> ~d.home_dir /\ (~d.local_appdata \/ ~d.appdata)

(* The identity names the container and carries a userContextId.            *)
C14_Resolves(identity, container) ==
    /\ identity.userContextId.some
    /\ \/ identity.name = Some(container)
       \/ identity.l10nID = Some(TextUserContext \o container \o TextDotLabel)

(* A container name is requested of Firefox, containers.json is read and    *)
(* none of its identities resolves the name.                                *)
C14_UnresolvedContainer ==
    /\ op = "firefox_extract_cookies"
    /\ input.env.os = "macos"
    /\ input.env.secret.container.some
    /\ input.env.secret.container.v /= TextNone
    /\ input.env.secret.containers_json.state = "read"
    /\ \A i \in DOMAIN input.env.secret.containers_json.identities :
          ~C14_Resolves(input.env.secret.containers_json.identities[i],
                        input.env.secret.container.v)

(* C14: an extraction that meets a keyring override naming no supported     *)
(* keyring, a home or config directory that cannot be determined, or a      *)
(* requested Firefox container name that no identity of containers.json     *)
(* resolves fails with a Config error; the Firefox locator without a home   *)
(* directory fails with a Config error as well.                             *)
C14_Original ==
    /\ (C14_BadKeyring /\ C14_EarlierStepsPass) => output = Err("Config")
    /\ C14_DirectoryMissing => output = Err("Config")
    /\ (op = "firefox_locate" /\ ~input.home.some) => output.result = Err("Config")
    /\ (C14_UnresolvedContainer /\ C14_EarlierStepsPass) => output = Err("Config")

-----------------------------------------------------------------------------
(* C15: the .binarycookies parser on truncated and on arbitrary buffers.    *)

C15_SafariParsed ==
    /\ op = "safari_extract_cookies"
    /\ input.env.os = "macos"
    /\ input.env.fail = "none"

(* The first n bytes of the buffer of the pages end inside its header or    *)
(* inside one of its pages.                                                 *)
C15_EndsInside(pages, n) ==
    LET header == 8 + 4 * Len(pages)
        start(i) == header + FlatLen(SubSeq(pages, 1, i - 1))
    IN \/ n < header
       \/ \E i \in 1..Len(pages) : start(i) < n /\ n < start(i) + Len(pages[i])

(* The buffer parsed is a proper prefix of a valid buffer that ends inside  *)
(* the header or inside a page.                                             *)
C15_TruncatedInput ==
    \E pages \in SafariTruncatedPages :
        /\ Len(input.data) < Len(SafariFileBytes(pages))
        /\ input.data = SubSeq(SafariFileBytes(pages), 1, Len(input.data))
        /\ C15_EndsInside(pages, Len(input.data))

(* C15: parsing a proper prefix of a valid .binarycookies buffer that ends  *)
(* inside the header or inside a page returns a BrowserCookie error and no  *)
(* cookie store; for any buffer the parse ends in a store or an error of    *)
(* the crate, never in a panic.                                             *)
C15_Original ==
    C15_SafariParsed =>
        /\ output \notin {Err("panic"), Err("abort")}
        /\ C15_TruncatedInput => output = Err("BrowserCookie")

-----------------------------------------------------------------------------
(* Claims about the command line and the configuration strings, checked     *)
(* under SpecCli.                                                           *)

(* C16: for -u USER:PASSWORD the credentials of the configuration are the   *)
(* pair Auth::parse_user_pass returns: the text before the first ':' and    *)
(* the text after it verbatim, an empty password when there is no ':'; the  *)
(* Authorization header is Basic base64 of the text given (of USER: when it *)
(* holds no ':').                                                           *)
C16_Original ==
    op = "build_config_user" =>
        /\ output.ok
        /\ <<output.val.auth_username, output.val.auth_password>>
              = parse_user_pass(input.user_str).val
        /\ output.val.authorization =
              TextBasic \o base64_encode(as_bytes(
                  IF \E i \in DOMAIN input.user_str : input.user_str[i] = ":"
                  THEN input.user_str ELSE input.user_str \o <<":">>))

(* The text holds the pattern somewhere.                                    *)
Contains(text, pattern) ==
    \E i \in 0..Len(text) : starts_with(SubSeq(text, i + 1, Len(text)), pattern)

(* The parts the string was built from are those the claim speaks of: no    *)
(* '+' and no ':' in the keyring, no "::" in the profile and the container. *)
C17_PartsAllowed ==
    /\ input.keyring.some =>
          ~Contains(input.keyring.v, <<"+">>) /\ ~Contains(input.keyring.v, <<":">>)
    /\ input.profile.some => ~Contains(input.profile.v, <<":", ":">>)
    /\ input.container.some => ~Contains(input.container.v, <<":", ":">>)

(* C17: BrowserCookieConfig::parse of BROWSER[+KEYRING][:PROFILE]           *)
(* [::CONTAINER], built from a supported browser name, a keyring without    *)
(* '+' and ':' and a profile and a container without "::", returns that     *)
(* browser, keyring, profile and container, each absent part as None; a     *)
(* string whose browser part names no supported browser gives a Config      *)
(* error.                                                                   *)
C17_Original ==
    op = "BrowserCookieConfig_parse" =>
        /\ (input.b.browser.some /\ C17_PartsAllowed) =>
              output = Ok([browser |-> input.b.browser.v,
                           keyring |-> input.keyring,
                           profile |-> input.profile,
                           container |-> input.container])
        /\ ~input.b.browser.some => output = Err("Config")

-----------------------------------------------------------------------------
(* C18: the key candidates of the Linux decryptor.                          *)

(* One key candidate: the ciphertext is decrypted under the key, the        *)
(* plaintext is trimmed as the decryptor trims it and decoded as UTF-8.     *)
C18_Candidate(ciphertext, key, meta_version) ==
    IF ~decrypt_aes_cbc(ciphertext, key).ok THEN None
    ELSE from_utf8(IF meta_version >= 24 /\ Len(decrypt_aes_cbc(ciphertext, key).val) > 32
                   THEN SubSeq(decrypt_aes_cbc(ciphertext, key).val, 33,
                               Len(decrypt_aes_cbc(ciphertext, key).val))
                   ELSE decrypt_aes_cbc(ciphertext, key).val)

C18_FirstThenSecond(ciphertext, first, second, meta_version) ==
    IF C18_Candidate(ciphertext, first, meta_version).some
    THEN C18_Candidate(ciphertext, first, meta_version)
    ELSE C18_Candidate(ciphertext, second, meta_version)

C18_LinuxDecrypt(tag) ==
    /\ op = "decrypt"
    /\ input.os = "linux"
    /\ Len(input.encrypted_value) >= 3
    /\ SubSeq(input.encrypted_value, 1, 3) = tag

(* C18: LinuxChromeCookieDecryptor::decrypt returns, for a v10 ciphertext,  *)
(* the value under the default key if that candidate decrypts to valid      *)
(* UTF-8 after the trim, otherwise the value under the empty-password key   *)
(* if that one does, and None only when both fail; for a v11 ciphertext the *)
(* same with the keyring-derived key first.                                 *)
C18_Original ==
    /\ C18_LinuxDecrypt(TagV10) =>
          output = C18_FirstThenSecond(
                       SubSeq(input.encrypted_value, 4, Len(input.encrypted_value)),
                       derive_key(PeanutsPassword), derive_key(EmptyPassword),
                       input.self.meta_version)
    /\ (C18_LinuxDecrypt(TagV11) /\ input.self.v11_key.some) =>
          output = C18_FirstThenSecond(
                       SubSeq(input.encrypted_value, 4, Len(input.encrypted_value)),
                       input.self.v11_key.v, derive_key(EmptyPassword),
                       input.self.meta_version)

-----------------------------------------------------------------------------
(* C19: the trim of the 32-byte prefix.                                     *)

(* The plaintext without its leading 32 bytes when the meta-version is 24   *)
(* or more, the whole plaintext otherwise.                                  *)
C19_Trimmed(plaintext, meta_version) ==
    IF meta_version >= 24 THEN SubSeq(plaintext, 33, Len(plaintext)) ELSE plaintext

(* The plaintexts the encrypted value decrypts to under the keys of the     *)
(* decryptor: AES-CBC on macOS and Linux, AES-GCM or DPAPI on Windows.      *)
C19_Plaintexts ==
    LET ev == input.encrypted_value
        ct == SubSeq(ev, 4, Len(ev))
        tag == IF Len(ev) >= 3 THEN SubSeq(ev, 1, 3) ELSE <<>>
        keys == IF input.os = "macos"
                THEN (IF tag = TagV10 /\ input.self.key.some
                      THEN {input.self.key.v} ELSE {})
                ELSE IF input.os = "linux"
                THEN (IF tag = TagV10 THEN {input.self.v10_key, input.self.empty_key}
                      ELSE IF tag = TagV11 /\ input.self.v11_key.some
                      THEN {input.self.v11_key.v, input.self.empty_key}
                      ELSE {})
                ELSE (IF tag = TagV10 /\ input.self.v10_key.some
                      THEN {input.self.v10_key.v} ELSE {})
    IN IF input.os = "windows"
       THEN {e.plain : e \in {e \in GcmCodebook : e.ct = ct /\ e.key \in keys}}
            \cup (IF Len(ev) >= 3 /\ tag /= TagV10
                  THEN {e.plain : e \in {e \in DpapiCodebook : e.blob = ev}}
                  ELSE {})
       ELSE {e.plain : e \in {e \in CbcCodebook :
                            e.ct = ct /\ derive_key(e.password) \in keys}}

(* The value is not the text of the raw bytes, which the macOS decryptor    *)
(* returns for a value without the v10 tag.                                 *)
C19_Decrypted ==
    /\ op = "decrypt"
    /\ output.some
    /\ ~(input.os = "macos" /\ SubSeq(input.encrypted_value, 1, 3) /= TagV10)

(* C19: the value a Chromium decryptor (macOS, Linux, Windows) returns is   *)
(* the UTF-8 text of a plaintext of the encrypted value, without its        *)
(* leading 32 bytes when the meta-version is 24 or more and whole when it   *)
(* is less, whatever the length of the plaintext.                           *)
C19_Original ==
    C19_Decrypted =>
        \E plaintext \in C19_Plaintexts :
            output = from_utf8(C19_Trimmed(plaintext, input.self.meta_version))

-----------------------------------------------------------------------------
(* C20: the Local State file of Chromium on Windows.                        *)

(* The states of Local State that give no key: no such file, not readable  *)
(* as text, not JSON, no os_crypt.encrypted_key, not base64, no DPAPI       *)
(* prefix, not unwrappable by DPAPI.                                        *)
C20_KeylessLocalStates ==
    {"absent", "unreadable", "bad_json", "no_key", "bad_base64", "bad_prefix",
     "dpapi_failed"}

(* An extraction on Windows all of whose steps but the read of Local State  *)
(* succeed.                                                                 *)
C20_WindowsExtraction ==
    /\ op = "extract_chromium_cookies"
    /\ input.env.os = "windows"
    /\ input.env.dirs = AllDirs
    /\ input.env.located.ok
    /\ input.env.fail = "none"
    /\ input.env.secret.local_state \in C20_KeylessLocalStates

(* The value of the row for a decryptor without a v10 key.                  *)
C20_KeylessValue(row) ==
    RowValue("windows", row,
             [v10_key |-> None, meta_version |-> input.env.meta_version])

C20_IsV10(row) ==
    /\ row.value = <<>>
    /\ Len(row.encrypted_value) >= 3
    /\ SubSeq(row.encrypted_value, 1, 3) = TagV10

(* C20: on Windows, whatever the state of Local State that gives no key,    *)
(* the decryptor is built without a v10 key: every v10 row is skipped, the  *)
(* other rows give their cookies, and the extraction fails only as it does  *)
(* without that file: when a row cannot be read or no row gives a cookie.   *)
C20_Original ==
    C20_WindowsExtraction =>
        LET rows == input.rows
            yielding == {i \in 1..Len(rows) : C20_KeylessValue(rows[i]).some}
        IN /\ \A i \in 1..Len(rows) : C20_IsV10(rows[i]) => i \notin yielding
           /\ IF \A i \in 1..Len(rows) : RowReadable("windows", rows[i])
              THEN /\ output.ok <=> yielding /= {}
                   /\ output.ok =>
                        /\ StoredCount(output.val) = Cardinality(yielding)
                        /\ \A i \in yielding :
                             \E c \in StoredCookies(output.val) :
                                /\ c.domain = rows[i].host_key
                                /\ c.value = C20_KeylessValue(rows[i]).v
                   /\ ~output.ok => output = Err("BrowserCookie")
              ELSE output = Err("BrowserCookie")

-----------------------------------------------------------------------------
(* C21: offsets that point outside their enclosing data in a Safari file.   *)

(* C21: a record offset at or beyond the end of its page, and a domain,     *)
(* name, path or value offset at or beyond the end of the record data, make *)
(* the parse of a .binarycookies file fail with a BrowserCookie error; the  *)
(* record is not skipped.                                                   *)
C21_Original ==
    (C15_SafariParsed
     /\ input.data \in SafariStrayRecordFiles \cup SafariStrayStringFiles)
        => output = Err("BrowserCookie")

-----------------------------------------------------------------------------
(* Claims about the Firefox containers, checked under SpecExtract.          *)

(* The identities of containers.json that carry the requested name, as a    *)
(* name or as the l10nID "userContext" + name + ".label".                   *)
C22_Named(identity, name) ==
    \/ identity.name = Some(name)
    \/ identity.l10nID = Some(TextUserContext \o name \o TextDotLabel)

C22_Resolving(identities, name) ==
    {i \in 1..Len(identities) :
        C22_Named(identities[i], name) /\ identities[i].userContextId.some}

(* The container and the containers.json of the call in the state.          *)
C22_Container ==
    IF op = "resolve_container" THEN input.container
    ELSE input.env.secret.container

C22_ContainersJson ==
    IF op = "resolve_container" THEN input.containers_json
    ELSE input.env.secret.containers_json

(* C22: resolving a container never widens the selection: no container      *)
(* gives the mode Any, the literal "none" gives NoneOnly, any other name    *)
(* gives Specific with the userContextId of an identity whose name is the   *)
(* requested name or whose l10nID is "userContext" + name + ".label"; when  *)
(* no identity resolves the name the resolution fails, and an extraction    *)
(* with such a name fails whatever rows the table holds.                    *)
C22_NeverWidens ==
    /\ op = "resolve_container" =>
          IF ~input.container.some
          THEN output = Ok([id |-> None, mode |-> "Any"])
          ELSE IF input.container.v = TextNone
          THEN output = Ok([id |-> None, mode |-> "NoneOnly"])
          ELSE /\ output.ok =>
                    /\ output.val.mode = "Specific"
                    /\ \E i \in C22_Resolving(input.containers_json.identities,
                                              input.container.v) :
                          output.val.id =
                              input.containers_json.identities[i].userContextId
               /\ (\/ input.containers_json.state /= "read"
                   \/ C22_Resolving(input.containers_json.identities,
                                    input.container.v) = {})
                      => ~output.ok
    /\ (/\ op = "firefox_extract_cookies"
        /\ input.env.os = "macos"
        /\ input.env.secret.container.some
        /\ input.env.secret.container.v /= TextNone
        /\ \/ input.env.secret.containers_json.state /= "read"
           \/ C22_Resolving(input.env.secret.containers_json.identities,
                            input.env.secret.container.v) = {})
          => ~output.ok

(* The name Work is resolved through the l10nID of the second identity,     *)
(* the first one carrying the name without an id.                           *)
C22_Witness ==
    /\ op = "resolve_container"
    /\ input.container = Some(ContainerWork)
    /\ input.containers_json.identities = <<IdentityWorkNoId, IdentityWorkL10n>>
    /\ output = Ok([id |-> Some(1), mode |-> "Specific"])

(* The extraction ran its query: the database was opened and the container  *)
(* resolved, and every row of the table can be read.                        *)
C23_Queried ==
    /\ op = "firefox_extract_cookies"
    /\ input.env.os = "macos"
    /\ firefox_open(input.env).ok
    /\ \A i \in 1..Len(input.rows) : input.rows[i].readable

C23_Resolved == firefox_open(input.env).val

(* The rows the claim says the query selects.                               *)
C23_Isolated(row) ==
    IF C23_Resolved.mode = "Specific"
    THEN LET token == TextUserContextIdEq \o id_to_string(C23_Resolved.id.v) IN
         \/ ends_with(row.originAttributes, token)
         \/ Contains(row.originAttributes, token \o <<"&">>)
    ELSE IF C23_Resolved.mode = "NoneOnly"
    THEN ~Contains(row.originAttributes, TextUserContextIdEq)
    ELSE TRUE

C23_Values(rows) == [i \in 1..Len(rows) |-> rows[i].value]

C23_StoredValues ==
    IF output.ok THEN C23_Values(output.val[FirefoxBucket]) ELSE <<>>

(* C23: in Specific mode with the resolved id N a row is selected if and    *)
(* only if its originAttributes ends with "userContextId=N" or contains     *)
(* "userContextId=N&", so that rows of another container and rows of no     *)
(* container are never selected; in NoneOnly mode a row is selected if and  *)
(* only if its originAttributes contains no "userContextId=" token. The     *)
(* cookies of the store are those of the selected rows, in row order.       *)
C23_Original ==
    C23_Queried =>
        C23_StoredValues = C23_Values(SelectSeq(input.rows, C23_Isolated))

-----------------------------------------------------------------------------
(* Claims about the cookies of a request chain, checked under SpecHttp.     *)

C24_Configured == config.browser_cookies.some /\ Url_parse(config.url).ok

(* The Cookie header that one evaluation of cookies_for_url over the store  *)
(* of the attempt gives for the URL of the request.                         *)
C24_CookieHeaders ==
    {build_request(config, redirect_origin_key(Url_parse(config.url).val),
                   current_url, current_method, current_data,
                   cookies_for_url(cookie_context.v, order, current_url, now),
                   existing).cookie :
        now \in HttpNows, existing \in find_cookie_header(config.headers),
        order \in Orders(cookie_context.v)}

(* C24: in an attempt with browser cookies configured the extraction is     *)
(* invoked exactly once, before the first request of the redirect chain;    *)
(* every request takes its cookies from one evaluation of cookies_for_url   *)
(* over the store of the attempt, which no step of the chain changes; and   *)
(* when the extraction fails the attempt ends without a request.            *)
C24_ExtractOncePerAttempt ==
    [][C24_Configured =>
        /\ pc = "start" => extractions' = 1
        /\ (pc = "start" /\ pc' = "attempt_done")
              => (requests_sent' = 0 /\ ~result'.ok /\ cookie_context' = <<>>)
        /\ pc \in {"send", "await"}
              => (/\ extractions' = extractions
                  /\ extractions = 1
                  /\ cookie_context' = cookie_context
                  /\ cookie_context.some)
        /\ (pc = "send" /\ pc' = "await")
              => (/\ requests_sent' = requests_sent + 1
                  /\ request'.cookie \in C24_CookieHeaders)
        /\ (pc = "send" /\ pc' /= "await")
              => (/\ requests_sent' = requests_sent
                  /\ request' = request
                  /\ pc' = "attempt_done"
                  /\ ~result'.ok)
        /\ pc \in {"await", "attempt_done", "sleep"}
              => requests_sent' = requests_sent
      ]_vars

(* The second request of a redirect chain carries cookies of the store that *)
(* was extracted once, before the first request.                            *)
C24_Witness ==
    /\ C24_Configured
    /\ pc = "await"
    /\ requests_sent = 2
    /\ extractions = 1
    /\ cookie_context = Some(HttpStore)
    /\ request.cookie.some

-----------------------------------------------------------------------------
(* Claims about the Chromium decryptors, checked under SpecExtract.         *)

(* A Linux decryptor built for a KWallet whose helper failed has decrypted  *)
(* a value.                                                                 *)
C25_KWalletFailed ==
    /\ op = "decrypt"
    /\ input.os = "linux"
    /\ ~input.secret.override.some
    /\ input.secret.chosen \in {"KWallet", "KWallet5", "KWallet6"}
    /\ input.secret.lookup \in KWalletFailures

(* The decryptor of the Basic-Text backend for the same database.           *)
C25_BasicText ==
    LinuxChromeCookieDecryptor_new(LinuxKeyring(None, "BasicText", "found"),
                                   input.self.meta_version).val

(* C25: with a KWallet backend whose helper cannot be started, exits with a *)
(* failure status or prints the "failed to read" sentinel, the decryptor    *)
(* holds no keyring-derived key, exactly as with the Basic-Text backend,    *)
(* and a v11 ciphertext is handled as the Basic-Text decryptor handles it.  *)
C25_Original ==
    C25_KWalletFailed =>
        /\ input.self = C25_BasicText
        /\ starts_with(input.encrypted_value, TagV11)
              => output = linux_decrypt(C25_BasicText, input.encrypted_value)

-----------------------------------------------------------------------------
(* Claims about the search of the Chromium locator.                         *)

(* find_cookie_database settled on a search root.                           *)
C26_Searched == op = "find_cookie_database" /\ output.root.some

(* The node the search root names, if there is one.                         *)
C26_Root == resolve(input.fs, output.root.v)

(* The nodes at any depth under the search root.                            *)
C26_Under ==
    IF ~C26_Root.some THEN {}
    ELSE {n \in input.fs : /\ is_prefix(C26_Root.v, n.path)
                           /\ Len(n.path) > Len(C26_Root.v)}

(* The files with the expected name at any depth under the search root.     *)
C26_Candidates ==
    {n \in C26_Under : n.kind = "file" /\ n.path[Len(n.path)] = TextCookies}

(* The result is a path of the node n.                                      *)
C26_Returns(n) ==
    output.result.ok /\ resolve(input.fs, output.result.val) = Some(n.path)

(* C26: find_cookie_database returns, among all files named Cookies at any  *)
(* depth under the search root, one whose modification time is not less     *)
(* than that of any other; it fails with FileNotFound when the search root  *)
(* does not exist or holds no such file; it never returns a file of another *)
(* name that the search found.                                              *)
C26_Original ==
    C26_Searched =>
        IF ~exists(input.fs, output.root.v) \/ C26_Candidates = {}
        THEN output.result = Err("FileNotFound")
        ELSE \E n \in C26_Candidates :
                /\ C26_Returns(n)
                /\ \A m \in C26_Candidates : m.mtime <= n.mtime

(* A directory that the walk from the search root has to list cannot be     *)
(* listed: the root itself, or a directory below it whose ancestors up to   *)
(* the root can all be listed.                                              *)
C26_WalkBlocked ==
    \/ ~can_read_dir(input.fs, output.root.v)
    \/ \E d \in C26_Under :
          /\ d.kind = "dir" /\ ~d.listable
          /\ \A k \in Len(C26_Root.v)..(Len(d.path) - 1) :
                \E a \in node_at(input.fs, SubSeq(d.path, 1, k)) :
                    a.kind = "dir" /\ a.listable

(* C26, amended: find_cookie_database fails with FileNotFound when the      *)
(* search root does not exist; fails with BrowserCookie when the root or a  *)
(* directory the walk reaches cannot be listed; otherwise it fails with     *)
(* FileNotFound when no file named Cookies lies under the root, and else    *)
(* returns one of those files whose modification time is not less than     *)
(* that of any other, never a file of another name.                         *)
C26_NewestCandidate ==
    C26_Searched =>
        IF ~exists(input.fs, output.root.v)
        THEN output.result = Err("FileNotFound")
        ELSE IF C26_WalkBlocked
        THEN output.result = Err("BrowserCookie")
        ELSE IF C26_Candidates = {}
        THEN output.result = Err("FileNotFound")
        ELSE \E n \in C26_Candidates :
                /\ C26_Returns(n)
                /\ \A m \in C26_Candidates : m.mtime <= n.mtime

(* The search from a root that holds two files named Cookies and a newer    *)
(* file of another name returns the newer of the two.                       *)
C26_Witness ==
    /\ C26_Searched
    /\ output.result.ok
    /\ Cardinality(C26_Candidates) = 2
    /\ \E n \in C26_Under :
          /\ n.kind = "file"
          /\ n.path[Len(n.path)] /= TextCookies
          /\ \A m \in C26_Candidates : m.mtime < n.mtime

-----------------------------------------------------------------------------
(* Claims about the values of the Chromium rows.                            *)

(* The rows of the extraction that yield a value, and the values of those   *)
(* with a given host_key, in row order.                                     *)
C27_Yields(row) ==
    RowValue(input.env.os, row, chromium_open(input.env).val).some

C27_ValuesFor(host_key) ==
    LET rows == SelectSeq(input.rows,
                          LAMBDA row : C27_Yields(row) /\ row.host_key = host_key)
    IN [i \in 1..Len(rows) |->
           RowValue(input.env.os, rows[i], chromium_open(input.env).val).v]

C27_HostKeys ==
    {input.rows[i].host_key : i \in {i \in 1..Len(input.rows) :
                                        C27_Yields(input.rows[i])}}

(* C27: the value stored for a Chromium row is the plaintext column when it *)
(* is not empty, without the decryptor being asked; otherwise the           *)
(* decryptor's result for a non-empty encrypted_value, the row being        *)
(* dropped when there is none; otherwise the row is dropped. The cookies    *)
(* are appended in row order to the bucket of their own host_key.           *)
C27_RowValues ==
    (/\ op = "extract_chromium_cookies"
     /\ OpenedOk
     /\ \A i \in 1..Len(input.rows) : RowReadable(input.env.os, input.rows[i])
     /\ output.ok) =>
        /\ DOMAIN output.val = C27_HostKeys
        /\ \A k \in C27_HostKeys :
              /\ [i \in 1..Len(output.val[k]) |-> output.val[k][i].value]
                    = C27_ValuesFor(k)
              /\ \A i \in 1..Len(output.val[k]) : output.val[k][i].domain = k

(* A row with a plaintext value and a ciphertext that decrypts to another   *)
(* text is followed by a row of the same host with an encrypted value only: *)
(* the bucket holds the plaintext value, then the decrypted one.            *)
C27_Witness ==
    /\ op = "extract_chromium_cookies"
    /\ OpenedOk
    /\ input.env.os = "linux"
    /\ Len(input.rows) = 2
    /\ input.rows[1].value = <<"c">>
    /\ input.rows[1].encrypted_value = TagV10 \o <<1>>
    /\ input.rows[2].value = <<>>
    /\ output.ok
    /\ [i \in 1..Len(output.val[<<"b">>]) |-> output.val[<<"b">>][i].value]
          = <<(<<"c">>), (<<"a", "b">>)>>

-----------------------------------------------------------------------------
(* C28: what a decryptor returns is a decryption.                           *)

(* The version tags the decryptor of a system knows.                        *)
C28_KnownTags(os) == IF os = "linux" THEN {TagV10, TagV11} ELSE {TagV10}

(* C28: no Chromium decryptor returns the stored ciphertext as a value: a   *)
(* value it returns is the UTF-8 text of a plaintext that the payload       *)
(* decrypts to under a key the decryptor holds (whole or without its        *)
(* 32-byte prefix), and on macOS and Linux an encrypted_value of less than  *)
(* 3 bytes or with a version tag the decryptor does not know gives None.    *)
C28_Original ==
    op = "decrypt" =>
        /\ output.some =>
              \E plaintext \in C19_Plaintexts :
                 output \in {from_utf8(plaintext),
                             from_utf8(SubSeq(plaintext, 33, Len(plaintext)))}
        /\ (/\ input.os \in {"macos", "linux"}
            /\ \/ Len(input.encrypted_value) < 3
               \/ SubSeq(input.encrypted_value, 1, 3) \notin C28_KnownTags(input.os))
              => output = None

-----------------------------------------------------------------------------
(* C29: the expansion of a path-like profile.                               *)

(* find_cookie_database was called with a path-like profile, which it hands *)
(* to expand_path.                                                          *)
C29_Expands ==
    /\ op = "find_cookie_database"
    /\ input.profile.some
    /\ is_path_like(input.profile.v)

(* The path expand_path returned: the file returned directly, or the root   *)
(* of the search.                                                           *)
C29_Expanded ==
    IF output.root.some THEN output.root
    ELSE IF output.result.ok THEN Some(output.result.val)
    ELSE None

(* C29: expand_path returns a value for every path-like profile and never   *)
(* panics: for a profile that begins with '~' the home directory joined     *)
(* with the text after "~/" (the home directory itself for "~"), or a       *)
(* Config error when the home directory is unknown; any other profile       *)
(* unchanged.                                                               *)
C29_Original ==
    C29_Expands =>
        /\ output.result /= Err("panic")
        /\ IF starts_with(input.profile.v, <<"~">>)
           THEN IF ~input.home.some
                THEN output.result = Err("Config") /\ ~output.root.some
                ELSE IF input.profile.v = <<"~">>
                THEN C29_Expanded = Some(input.home.v)
                ELSE starts_with(input.profile.v, <<"~", "/">>)
                        => C29_Expanded =
                              Some(PathBuf_join(input.home.v,
                                       PathBuf_from(SubSeq(input.profile.v, 3,
                                                           Len(input.profile.v)))))
           ELSE C29_Expanded = Some(PathBuf_from(input.profile.v))

-----------------------------------------------------------------------------
(* C30: termination of execute_with_history, checked under SpecHttpFair.    *)

(* The bounds on the requests of an attempt and on the attempts of a call   *)
(* with the redirect limit n.                                               *)
C30_Bounded ==
    config.max_redirects.some =>
        LET n == config.max_redirects.v IN
        /\ requests_sent <= n + 1
        /\ attempts <= config.retry_count + 1
        /\ attempts >= 1 =>
              (attempts - 1) * (n + 1) + requests_sent
                  <= (config.retry_count + 1) * (n + 1)

(* C30: with max_redirects Some(n) execute_with_history terminates whatever *)
(* the servers answer: an attempt ends after at most n + 1 responses, the   *)
(* call after at most retry_count + 1 attempts, so that at most             *)
(* (retry_count + 1) * (n + 1) requests are sent.                           *)
C30_Terminates ==
    /\ []C30_Bounded
    /\ config.max_redirects.some ~> pc = "done"

(* A call with two redirects allowed and one retry ends after its second    *)
(* attempt, which sent three requests.                                      *)
C30_Witness ==
    /\ pc = "done"
    /\ config.max_redirects = Some(2)
    /\ config.retry_count = 1
    /\ attempts = 2
    /\ requests_sent = 3

=============================================================================
